---- MODULE Spec2Model ----
(***************************************************************************)
(* Model of the orchestrator's reactive loop (react), the Manager.call     *)
(* fan-out it drives, and Model.connect around them.                       *)
(*                                                                         *)
(* One behaviour of Spec is one connect() on an orchestrator whose         *)
(* registry was filled at creation; one behaviour of CallSpec is a         *)
(* sequence of Manager.call invocations a caller makes on a manager,       *)
(* sharing one session table.  JavaScript runs to completion between       *)
(* awaits, so each action is the code from one await to the next.          *)
(***************************************************************************)
EXTENDS Integers, Sequences, FiniteSets, TLC

(* ------------------------------ bounds -------------------------------- *)
\* largest iteration budget (options.iterations / DEFAULT_ITERATIONS) explored
MaxIter == 3
\* largest number of requests one provider response carries
MaxReq == 2
\* largest number of requests one run hands to Manager.call in total
MaxTotal == 3
\* largest number of Manager.call invocations a direct caller makes
MaxCalls == 2

(* ---------------------------- constants ------------------------------- *)
DEFAULT_CONCURRENCY == 10

\* uris the provider addresses; each may or may not be registered
Uris == {"a", "t"}
\* the registries explored: "a" holds an agent or nothing, "t" a tool, an
\* agent (so that tool requests to it are of the wrong kind) or nothing
Registries ==
  {[u \in Uris |-> IF u = "a" THEN x ELSE y] :
      x \in {"none", "agent"}, y \in {"none", "tool", "agent"}}
\* the parent task ids explored; a connect() runs under the first
Parents == {"p", "q"}
\* the fixed system message of the final iteration
max_iterations_message == "max_iterations"
\* what the caller hands to connect(): a string becomes one user message
InitialMessages == <<"user">>

VARIABLES
  registry,      \* Manager data: uri -> "agent" | "tool" | "none" (not registered)
  iterations,    \* react: the iteration budget
  aborted,       \* options.abortSignal.aborted
  pc,            \* where connect() is suspended
  i,             \* react: loop counter
  request,       \* react: the ConnectRequest (mutated by update)
  response,      \* react: last provider response, <<>> while undefined
  results,       \* react: responses of the preceding Manager.call
  history,       \* react: accumulated responses
  callRequests,  \* Manager.call: the request array being dispatched
  taskState,     \* Manager.call: per request "queued" | "running" | "settled"
  responses,     \* Manager.call: the responses array
  tasks,         \* options.tasks: parent -> uri -> child task id, 0 = absent
  outcome,       \* how connect() settled
  providerCalls, \* number of provider invocations of this run
  managerCalls,  \* number of Manager.call invocations of this run
  executes,      \* number of callable.execute invocations of this run
  reqLog,        \* the request as seen by each provider call
  resLog,        \* what each Manager.call returned
  callLog,       \* the calls each provider response carried
  abortInfo,     \* the run's position when the abort signal fired
  stray,         \* Manager data: the keys whose callable has another uri
  concurrency,   \* Callable.DEFAULT_CONCURRENCY as read from the environment
  parent,        \* options.parentTaskId of the current Manager.call
  wire,          \* the messages sent to agents by the current Manager.call
  fate,          \* Manager.call: per request how its processing ended
  executesBefore, \* executes when the current Manager.call began
  requested      \* number of requests handed to Manager.call so far

(* ------------------- state of the adapters and the Model ---------------- *)
\* the code paths that call getInfo() of one adapter: the constructor
\* (from()/create()), getTarget() on behalf of connect(), and a direct caller
Callers == {"from", "getTarget", "caller"}
\* the largest number of getInfo() calls one adapter receives
MaxInfoCalls == 5
NoInfo == 0
NoPromise == 0

VARIABLES
  info,          \* adapter._info: NoInfo, or the fetched value
  infoPromise,   \* adapter._infoPromise: NoPromise, or the promise's number
  promises,      \* the promises the fetches returned: their states in order
  fetches,       \* number of getAgentCard() / getToolInfo() invocations
  infoCalls,     \* number of getInfo() invocations
  callers,       \* per caller: where its getInfo() is, and the promise it awaits
  returned       \* the values the getInfo() calls have returned

infoVars == <<info, infoPromise, promises, fetches, infoCalls, callers,
              returned>>

\* Agent.from / Tool.from: new adapter, then _agent.getInfo() without await;
\* the n-th fetch resolves to the value n
InfoInit ==
  /\ info = NoInfo
  /\ infoPromise = 1
  /\ promises = <<"pending">>
  /\ fetches = 1
  /\ infoCalls = 1
  /\ callers = [c \in Callers |->
                  IF c = "from" THEN [pc |-> "awaiting", awaits |-> 1]
                  ELSE [pc |-> "idle", awaits |-> NoPromise]]
  /\ returned = {}

\* the largest number of add() calls made on one Model
MaxAdds == 2
\* what the caller hands to add(): an agent (an A2A service or client, or
\* parameters with an engine), a tool (parameters with a command), an object
\* or value that is none of them, or null
ServiceShapes == {"agent", "tool", "unknown", "null"}
NotRegistered == 0

VARIABLES
  data,          \* Model (Manager) data: uri -> the add() that registered it
  adds,          \* the add() calls made so far, in order
  addPromise,    \* Model._addPromise: the adds the chained promise waits for
  awaited,       \* the chain execute() is awaiting
  cpc,           \* where this connect() is
  services,      \* the services listed in the ConnectRequest built by connect()
  addsAtConnect, \* number of add() calls made before connect() was called
  dataAtDispatch \* the registry when the provider's calls were dispatched

addVars == <<data, adds, addPromise, awaited, cpc, services, addsAtConnect,
             dataAtDispatch>>

\* Model.create() without services: an empty registry, no add chained
AddInit ==
  /\ data = [u \in Uris |-> NotRegistered]
  /\ adds = <<>>
  /\ addPromise = {}
  /\ awaited = {}
  /\ cpc = "idle"
  /\ services = [u \in Uris |-> NotRegistered]
  /\ addsAtConnect = 0
  /\ dataAtDispatch = [u \in Uris |-> NotRegistered]

\* the context ids and the context objects a Monitor is given
ContextIds == {"i", "j"}
Contexts == {"x", "y"}
NoContext == "none"
\* the largest number of create() / set() / delete() calls made on one
\* Monitor, each of which binds at most two functions
MaxMonitorOps == 3

VARIABLES
  contexts,      \* Monitor.contexts: id -> context, NoContext when absent
  listeners,     \* per context: the functions listening on its publisher
  bound,         \* number of functions created by emitUpdate.bind(this) so far
  relayed,       \* the publication last made, with the copies of it relayed
  created        \* the contexts that create() made

monitorVars == <<contexts, listeners, bound, relayed, created>>

\* new Monitor(): no context
MonitorInit ==
  /\ contexts = [id \in ContextIds |-> NoContext]
  /\ listeners = [c \in Contexts |-> {}]
  /\ bound = 0
  /\ relayed = {}
  /\ created = {}

\* the largest number of execute() calls made on the adapters of one Model,
\* and the largest number of buffers the tool's subprocess writes to stderr
MaxExecutes == 2
MaxChunks == 2

VARIABLES
  adapterCalls,  \* the execute() calls made: kind, state and outcome of each,
                 \* and the number of stderr buffers when it began and ended
  stderr,        \* the "data" listeners on the tool transport's stderr
  chunks,        \* number of buffers the subprocess has written to stderr
  updates        \* the update events emitted on the Model's Monitor

adapterVars == <<adapterCalls, stderr, chunks, updates>>

\* the adapters as created: Tool.create has detached its own stderr listener
AdapterInit ==
  /\ adapterCalls = <<>>
  /\ stderr = {}
  /\ chunks = 0
  /\ updates = {}

VARIABLES
  modelHistory   \* Model._history: the array the history getter returns

\* Model.create without options.history
ModelInit == modelHistory = <<>>

\* the calls safeClose makes, in the order of its code
CloseSteps ==
  <<"stdin.removeAllListeners", "stdout.removeAllListeners",
    "stderr.removeAllListeners", "stdin.destroy", "stdout.destroy",
    "stderr.destroy", "stderr.unpipe", "transport.close", "client.close",
    "process.kill", "transport.stderr.removeAllListeners">>
NotClosing == 0
Closed == Len(CloseSteps) + 1
\* the largest number of safeClose calls made on one tool
MaxCloses == 2

VARIABLES
  closeArgs,     \* what safeClose is called on: client and transport given,
                 \* the transport's child process, its pid
  closePc,       \* the step safeClose is about to make
  attempted,     \* the steps safeClose has made, in order
  failed,        \* the steps that threw or rejected
  closeOutcome,  \* "pending", or how safeClose settled: "returned" | "threw"
  closes         \* number of safeClose calls made

closeVars == <<closeArgs, closePc, attempted, failed, closeOutcome, closes>>

\* a tool that has not been stopped
CloseInit ==
  /\ closeArgs = [given |-> TRUE, process |-> TRUE, pid |-> TRUE]
  /\ closePc = NotClosing
  /\ attempted = <<>>
  /\ failed = {}
  /\ closeOutcome = "pending"
  /\ closes = 0

\* the largest number of pages an MCP server splits one listing into
MaxPages == 3
\* the listings of an MCP server, in the order getToolInfo reads them
Kinds == <<"tools", "resources", "prompts">>
NoCursor == 0
NoToolInfo == {}

VARIABLES
  dpc,           \* where getToolInfo is: a listing, or how it ended
  capabilities,  \* the listings the server declares support for
  server,        \* per listing: the pages the server holds, items per page
  nextCursor,    \* the cursor the next list request passes
  lists,         \* per listing: the items accumulated so far
  listCalls,     \* the list requests made: listing, cursor passed, success
  toolInfo       \* Tool._info: holds the lists cached by getInfo(), if any

discoverVars == <<dpc, capabilities, server, nextCursor, lists, listCalls,
                  toolInfo>>

\* a Tool whose info has not been asked for
DiscoverInit ==
  /\ dpc = "idle"
  /\ capabilities = {}
  /\ server = [k \in {"tools", "resources", "prompts"} |->
                 [pages |-> 1, per |-> 0]]
  /\ nextCursor = NoCursor
  /\ lists = [k \in {"tools", "resources", "prompts"} |-> <<>>]
  /\ listCalls = <<>>
  /\ toolInfo = NoToolInfo

\* the largest number of runs of the Model's A2A engine
MaxRuns == 2
\* what getContent finds in the user message of a run: a text, an empty
\* text, or nothing
NoText == "undefined"
UserContents == {"hello", "", NoText}
\* the texts the reactive loop may return
FinalTexts == {1, 2}

VARIABLES
  epc,           \* where the running generator of the engine is
  userMessage,   \* the content of the user message of the running generator
  yielded,       \* the events the running generator has yielded
  finalText,     \* the text execute() returned to it, 0 before that
  engineRuns     \* the runs that ended: content, events, text, how and where

engineVars == <<epc, userMessage, yielded, finalText, engineRuns>>

\* no generator of the engine has been made
EngineInit ==
  /\ epc = "idle"
  /\ userMessage = NoText
  /\ yielded = <<>>
  /\ finalText = 0
  /\ engineRuns = <<>>

componentVars == <<infoVars, addVars, monitorVars, adapterVars, modelHistory,
                   closeVars, discoverVars, engineVars>>

\* the adapters and the Model as constructed, nothing called on them yet
ComponentsIdle ==
  /\ InfoInit
  /\ AddInit
  /\ MonitorInit
  /\ AdapterInit
  /\ ModelInit
  /\ CloseInit
  /\ DiscoverInit
  /\ EngineInit

vars == <<registry, iterations, aborted, pc, i, request, response, results,
          history, callRequests, taskState, responses, tasks, outcome,
          providerCalls, managerCalls, executes, reqLog, resLog, callLog,
          abortInfo, stray, concurrency, parent, wire, fate,
          executesBefore, requested, componentVars>>

\* the manager's configuration as one Manager.call sees it
context ==
  [registry |-> registry, stray |-> stray, concurrency |-> concurrency,
   parent |-> parent]

(* ------------------------------ helpers -------------------------------- *)
Min(x, y) == IF x < y THEN x ELSE y

RECURSIVE Flatten(_)
Flatten(ss) == IF ss = <<>> THEN <<>> ELSE Head(ss) \o Flatten(Tail(ss))

Pending == [status |-> "pending", text |-> 0, error |-> "none"]
Resolved(t) == [status |-> "resolved", text |-> t, error |-> "none"]
Rejected(e) == [status |-> "rejected", text |-> 0, error |-> e]

\* the empty session table
NoTasks == [p \in Parents |-> [u \in Uris |-> 0]]

NoAbort == [fired |-> FALSE, completed |-> 0, calls |-> 0, at |-> "none",
            inFlightAgent |-> FALSE]

(* --------------------------- pure functions ---------------------------- *)
isToolResponse(r) == r.kind = "tool_response"
isAgentResponse(r) == r.kind = "agent_response"
isToolRequest(r) == r.kind = "tool_request"
isAgentRequest(r) == r.kind = "agent_request"

\* createCall: tool requests first, then agent requests
createCall(resp) == resp.tools \o resp.agents

\* update that overwrites the response lists instead of appending to them
update_replacing(req, resps, msgs) ==
  [messages |-> req.messages \o msgs,
   tools    |-> SelectSeq(resps, isToolResponse),
   agents   |-> SelectSeq(resps, isAgentResponse)]

\* update: append the responses by kind and the extra messages
update(req, resps, msgs) ==
  [messages |-> req.messages \o msgs,
   tools    |-> req.tools \o SelectSeq(resps, isToolResponse),
   agents   |-> req.agents \o SelectSeq(resps, isAgentResponse)]

\* the hint injected one iteration too late, i.e. never
maxIteration_late(ii, iters) ==
  IF ii >= iters THEN <<max_iterations_message>> ELSE <<>>

\* the maxIteration array of iteration ii
maxIteration(ii, iters) ==
  IF ii >= iters - 1 THEN <<max_iterations_message>> ELSE <<>>

\* loop conditions with an off-by-one bound or without the abort check
loopCondition_inclusive(ii, iters, ab) == ii <= iters /\ ~ab
loopCondition_short(ii, iters, ab) == ii < iters - 1 /\ ~ab
loopCondition_noAbort(ii, iters, ab) == ii < iters

\* the for-loop's condition
loopCondition(ii, iters, ab) == ii < iters /\ ~ab

\* a loop that never breaks on an empty result list
breakOnEmpty_never(res) == FALSE

\* the break after Manager.call
breakOnEmpty(res) == Len(res) = 0

\* Util.response: the text of a response, or the "no content" error
Util_response(resp) ==
  IF resp.content = 0 THEN Rejected("No content found in response")
  ELSE Resolved(resp.content)

\* react's tail: the statements after the loop, and connect's return
reactReturn(respOpt) ==
  IF respOpt = <<>> THEN Rejected("No response from model")
  ELSE Util_response(respOpt[1])

(* ------------------------- Manager.call pieces ------------------------- *)
\* the requests a provider response may carry: tool requests address the
\* uri "t", agent requests the uri "a"; ids are unique per call and position
\* taskId and refs are the taskId and referenceTaskIds of the call's message,
\* 0 and {} when the call is a string
toolRequest(n, k) ==
  [id |-> <<n, k>>, uri |-> "t", kind |-> "tool_request",
   taskId |-> 0, refs |-> {}]
agentRequest(n, k) ==
  [id |-> <<n, k>>, uri |-> "a", kind |-> "agent_request",
   taskId |-> 0, refs |-> {}]

\* the responses the n-th provider call may return: content 0 is an empty
\* message, content n a text that identifies the call; left is what remains of
\* the run's request bound
RequestCounts(left) ==
  {p \in (0..MaxReq) \X (0..MaxReq) : p[1] + p[2] <= Min(MaxReq, left)}
ProviderResponses(n, left) ==
  { [content |-> c,
     tools   |-> [k \in 1..p[1] |-> toolRequest(n, k)],
     agents  |-> [k \in 1..p[2] |-> agentRequest(n, p[1] + k)]] :
      c \in {0, n}, p \in RequestCounts(left) }

\* a dispatch without the not-found and kind checks, and one without the
\* tool branch
dispatchable_always(reg, req) == TRUE
dispatchable_agentsOnly(reg, req) ==
  reg[req.uri] = "agent" /\ isAgentRequest(req)

\* _processRequest and Util.request up to the execute call: TRUE when the
\* request reaches callable.execute
dispatchable(reg, req) ==
  \/ reg[req.uri] = "agent" /\ isAgentRequest(req)
  \/ reg[req.uri] = "tool" /\ isToolRequest(req)

\* callable.execute's guard: a callable registered under a key that is not
\* its own uri throws on every request routed to it
executeThrows_never(strays, req) == FALSE
executeThrows(strays, req) == req.uri \in strays

\* uuidv4(): an id no entry of the session table holds
freshId(tk) ==
  Cardinality({pu \in Parents \X Uris : tk[pu[1]][pu[2]] # 0}) + 1
\* reference ids that leave out what the table holds
held_nothing(tk, pid) == {}

\* the child task ids the table holds for a parent
held(tk, pid) == {tk[pid][u] : u \in Uris} \ {0}

\* a session that prefers the task id of the message to the recorded one
sessionId_fromMessage(tk, pid, req) ==
  IF req.taskId # 0 THEN req.taskId
  ELSE IF tk[pid][req.uri] # 0 THEN tk[pid][req.uri] ELSE freshId(tk)

\* _session: the child task id of uri under the parent, taken from the
\* table, else from the message, else fresh, and written when absent
sessionId(tk, pid, req) ==
  IF tk[pid][req.uri] # 0 THEN tk[pid][req.uri]
  ELSE IF req.taskId # 0 THEN req.taskId ELSE freshId(tk)
\* a session that is never recorded
sessionTasks_noWrite(tk, pid, req) == tk

sessionTasks(tk, pid, req) ==
  IF tk[pid][req.uri] # 0 THEN tk
  ELSE [tk EXCEPT ![pid][req.uri] = sessionId(tk, pid, req)]
\* _session: the message as it leaves for the agent; created tells whether
\* this call wrote the table
sessionMessage(tk, pid, req) ==
  [parent |-> pid, uri |-> req.uri, id |-> req.id,
   created |-> tk[pid][req.uri] = 0,
   tasksThen |-> sessionTasks(tk, pid, req),
   taskId |-> sessionId(tk, pid, req),
   referenceTaskIds |-> held(sessionTasks(tk, pid, req), pid) \cup req.refs]

\* a semaphore as wide as the request array
limitOf_unbounded(conc, reqs) == Len(reqs)

\* the semaphore of one Manager.call
limitOf(conc, reqs) == Min(conc, Len(reqs))

running(ts) == {k \in DOMAIN ts : ts[k] = "running"}
queued(ts) == {k \in DOMAIN ts : ts[k] = "queued"}
\* a wait that ends with the first request to settle
allSettled_first(ts) == ts = <<>> \/ \E k \in DOMAIN ts : ts[k] = "settled"
\* Promise.allSettled over the tasks of one Manager.call
allSettled(ts) == \A k \in DOMAIN ts : ts[k] = "settled"

\* p-limit: while a slot is free, take the oldest queued request; a request
\* that is skipped (no callable, wrong kind) or whose execute throws settles
\* at once without a response, an executed one stays running until its
\* adapter answers; an agent's execute runs _session before it sends.
\* ctx holds the manager's registry and stray keys, the concurrency and the
\* call's parentTaskId
RECURSIVE startTasks(_, _, _)
startTasks(st, reqs, ctx) ==
  IF queued(st.taskState) = {} \/
     Cardinality(running(st.taskState)) >= limitOf(ctx.concurrency, reqs)
  THEN st
  ELSE LET k == CHOOSE q \in queued(st.taskState) :
                   \A q2 \in queued(st.taskState) : q <= q2
           r == reqs[k]
       IN IF ~dispatchable(ctx.registry, r)
          THEN startTasks(
                 [st EXCEPT !.taskState = [st.taskState EXCEPT ![k] = "settled"],
                            !.fate = [st.fate EXCEPT ![k] = "skipped"]],
                 reqs, ctx)
          ELSE IF executeThrows(ctx.stray, r)
          THEN startTasks(
                 [st EXCEPT !.taskState = [st.taskState EXCEPT ![k] = "settled"],
                            !.fate = [st.fate EXCEPT ![k] = "threw"],
                            !.executes = st.executes + 1],
                 reqs, ctx)
          ELSE startTasks(
                 [taskState |-> [st.taskState EXCEPT ![k] = "running"],
                  tasks     |-> IF isAgentRequest(r)
                                THEN sessionTasks(st.tasks, ctx.parent, r)
                                ELSE st.tasks,
                  wire      |-> IF isAgentRequest(r)
                                THEN Append(st.wire,
                                            sessionMessage(st.tasks, ctx.parent, r))
                                ELSE st.wire,
                  fate      |-> st.fate,
                  executes  |-> st.executes + 1], reqs, ctx)

\* a response's id: the request's, or a fresh one when the request has none
NoId == <<>>
responseId_fresh(req) == <<0, 0>>
responseId(req) == IF req.id = NoId THEN <<0, 0>> ELSE req.id

\* how the underlying sendMessage of an agent may settle: with a result, with
\* null or undefined, or by rejecting (an abort included)
SendOutcomes == {"result", "null", "reject"}
\* how the underlying callTool of a tool may settle
CallOutcomes == {"result", "reject"}

\* _response of the agent adapter; result is "none" for null or undefined,
\* err tells whether an error was captured
agentResponse(req, result, err) ==
  [id |-> responseId(req), uri |-> req.uri, kind |-> "agent_response",
   result |-> IF result # "none" THEN result
              ELSE IF err THEN "error message" ELSE "unknown error",
   error |-> err]

\* an adapter that loses the captured error
callAgent_dropsError(req, o) ==
  IF o = "result" THEN agentResponse(req, "ok", FALSE)
  ELSE agentResponse(req, "none", FALSE)

\* callAgent after _session: await sendMessage, catch, _response
callAgent(req, o) ==
  IF o = "result" THEN agentResponse(req, "ok", FALSE)
  ELSE IF o = "null" THEN agentResponse(req, "none", FALSE)
  ELSE agentResponse(req, "none", TRUE)

\* _response of the tool adapter: a result that does not parse is replaced by
\* the tool error text
toolResponse(uri, req, result, err) ==
  [id |-> responseId(req), uri |-> uri, kind |-> "tool_response",
   result |-> IF result # "none" THEN result ELSE "error message",
   error |-> err]

\* callTool: await client.callTool, catch, _response
callTool(uri, req, o) ==
  IF o = "result" THEN toolResponse(uri, req, "ok", FALSE)
  ELSE toolResponse(uri, req, "none", TRUE)

\* callable.execute past its uri guard, given how the underlying call settles
ExecuteOutcomes(r) == IF isAgentRequest(r) THEN SendOutcomes ELSE CallOutcomes
execute(r, o) == IF isAgentRequest(r) THEN callAgent(r, o) ELSE callTool(r.uri, r, o)

\* the state of a Manager.call whose requests are all queued
queuedCall(reqs, tk, ex) ==
  [taskState |-> [k \in 1..Len(reqs) |-> "queued"],
   fate |-> [k \in 1..Len(reqs) |-> "none"],
   tasks |-> tk, wire |-> <<>>, executes |-> ex]

(* ------------------------------ react ---------------------------------- *)
finished(o) == IF o.status = "resolved" THEN "done" ELSE "failed"

\* the loop head at counter ii: either the next provider call is issued with
\* the updated request, or the loop is left and connect() settles
reactStep(ii, res, req, respOpt, ab, iters) ==
  IF loopCondition(ii, iters, ab)
  THEN [pc |-> "provider", i |-> ii,
        request |-> update(req, res, maxIteration(ii, iters)),
        outcome |-> Pending, called |-> TRUE]
  ELSE [pc |-> finished(reactReturn(respOpt)), i |-> ii, request |-> req,
        outcome |-> reactReturn(respOpt), called |-> FALSE]

\* (a loop body that goes back to the loop head without i++)
afterCall_sameIteration(res, ii, req, respOpt, hist, ab, iters) ==
  IF breakOnEmpty(res)
  THEN [pc |-> finished(reactReturn(respOpt)), i |-> ii, request |-> req,
        outcome |-> reactReturn(respOpt), called |-> FALSE, history |-> hist]
  ELSE [history |-> hist \o res] @@
       reactStep(ii, res, req, respOpt, ab, iters)

\* the loop body after Manager.call returned res
afterCall(res, ii, req, respOpt, hist, ab, iters) ==
  IF breakOnEmpty(res)
  THEN [pc |-> finished(reactReturn(respOpt)), i |-> ii, request |-> req,
        outcome |-> reactReturn(respOpt), called |-> FALSE, history |-> hist]
  ELSE [history |-> hist \o res] @@
       reactStep(ii + 1, res, req, respOpt, ab, iters)

(* ------------------------------- state --------------------------------- *)
\* Model.create: the registry holds the services given at creation; the
\* budget is options.iterations or DEFAULT_ITERATIONS
Init ==
  /\ registry \in Registries
  /\ iterations \in 0..MaxIter
  /\ aborted = FALSE
  /\ pc = "idle"
  /\ i = 0
  /\ request = [messages |-> InitialMessages, tools |-> <<>>, agents |-> <<>>]
  /\ response = <<>>
  /\ results = <<>>
  /\ history = <<>>
  /\ callRequests = <<>>
  /\ taskState = <<>>
  /\ responses = <<>>
  /\ tasks = NoTasks
  /\ outcome = Pending
  /\ providerCalls = 0
  /\ managerCalls = 0
  /\ executes = 0
  /\ reqLog = <<>>
  /\ resLog = <<>>
  /\ callLog = <<>>
  /\ abortInfo = NoAbort
  /\ stray = {}
  /\ concurrency = DEFAULT_CONCURRENCY
  /\ parent = "p"
  /\ wire = <<>>
  /\ fate = <<>>
  /\ executesBefore = 0
  /\ requested = 0
  /\ ComponentsIdle

\* the assignments shared by every step that runs the loop head
ApplyStep(s) ==
  /\ pc' = s.pc
  /\ i' = s.i
  /\ request' = s.request
  /\ outcome' = s.outcome
  /\ providerCalls' = IF s.called THEN providerCalls + 1 ELSE providerCalls
  /\ reqLog' = IF s.called THEN Append(reqLog, s.request) ELSE reqLog

\* connect(): Util.options awaits getTarget() of every registered callable
Connect ==
  /\ pc = "idle"
  /\ pc' = "options"
  /\ UNCHANGED <<registry, iterations, aborted, i, request, response, results,
                 history, callRequests, taskState, responses, tasks, outcome,
                 providerCalls, managerCalls, executes, reqLog, resLog,
                 callLog, abortInfo, stray, concurrency, parent, wire,
                 fate, executesBefore, requested>>
  /\ UNCHANGED componentVars

\* a getInfo() of a registered callable rejects: connect() rejects with it
OptionsFail ==
  /\ pc = "options"
  /\ \E u \in Uris : registry[u] # "none"
  /\ pc' = "failed"
  /\ outcome' = Rejected("info failure")
  /\ UNCHANGED <<registry, iterations, aborted, i, request, response, results,
                 history, callRequests, taskState, responses, tasks,
                 providerCalls, managerCalls, executes, reqLog, resLog,
                 callLog, abortInfo, stray, concurrency, parent, wire,
                 fate, executesBefore, requested>>
  /\ UNCHANGED componentVars

\* the options are built; Util.request, execute() and the first loop head;
\* react's parameter history starts as the array Model._history
OptionsDone ==
  /\ pc = "options"
  /\ ApplyStep(reactStep(0, results, request, response, aborted, iterations))
  /\ history' = modelHistory
  /\ UNCHANGED <<registry, iterations, aborted, response, results,
                 callRequests, taskState, responses, tasks, managerCalls,
                 executes, resLog, callLog, abortInfo, stray, concurrency, parent, wire,
                 fate, executesBefore, requested>>
  /\ UNCHANGED componentVars

\* the caller fires the abort signal
Abort ==
  /\ ~aborted
  /\ pc \notin {"done", "failed"}
  /\ aborted' = TRUE
  /\ abortInfo' = [fired |-> TRUE, completed |-> i, calls |-> providerCalls,
                   at |-> pc,
                   inFlightAgent |->
                     \E k \in running(taskState) :
                        isAgentRequest(callRequests[k])]
  /\ UNCHANGED <<registry, iterations, pc, i, request, response, results,
                 history, callRequests, taskState, responses, tasks, outcome,
                 providerCalls, managerCalls, executes, reqLog, resLog,
                 callLog, stray, concurrency, parent, wire, fate,
                 executesBefore, requested>>
  /\ UNCHANGED componentVars

\* the provider throws: a provider failure, or a cancellation error when the
\* signal it was given has fired
ProviderFail ==
  /\ pc = "provider"
  /\ \E e \in {"provider failure"} \cup
              (IF aborted THEN {"cancellation"} ELSE {}) :
        outcome' = Rejected(e)
  /\ pc' = "failed"
  /\ UNCHANGED <<registry, iterations, aborted, i, request, response, results,
                 history, callRequests, taskState, responses, tasks,
                 providerCalls, managerCalls, executes, reqLog, resLog,
                 callLog, abortInfo, stray, concurrency, parent, wire,
                 fate, executesBefore, requested>>
  /\ UNCHANGED componentVars

\* Manager.call has settled every request and returns res to the loop
CallReturns(res, respOpt) ==
  LET s == afterCall(res, i, request, respOpt, history, aborted, iterations)
  IN /\ ApplyStep(s)
     /\ results' = res
     /\ history' = s.history
     /\ resLog' = Append(resLog, res)

\* the provider resolves; react hands the response's calls to Manager.call,
\* which returns at once when nothing is left to wait for
ProviderReturn ==
  /\ pc = "provider"
  /\ \E resp \in ProviderResponses(providerCalls, MaxTotal - requested) :
       LET reqs == createCall(resp)
           st == startTasks(queuedCall(reqs, tasks, executes), reqs, context)
       IN /\ response' = <<resp>>
          /\ wire' = st.wire
          /\ fate' = st.fate
          /\ executesBefore' = executes
          /\ requested' = requested + Len(reqs)
          /\ callLog' = Append(callLog, reqs)
          /\ managerCalls' = managerCalls + 1
          /\ callRequests' = reqs
          /\ taskState' = st.taskState
          /\ tasks' = st.tasks
          /\ executes' = st.executes
          /\ responses' = <<>>
          /\ IF allSettled(st.taskState)
             THEN CallReturns(<<>>, <<resp>>)
             ELSE /\ pc' = "call"
                  /\ UNCHANGED <<i, request, results, history, outcome,
                                 providerCalls, reqLog, resLog>>
  /\ UNCHANGED <<registry, iterations, aborted, abortInfo, stray, concurrency,
                 parent>>
  /\ UNCHANGED componentVars

\* the execute of request k settles with a response, which is pushed; the
\* semaphore admits the next queued request; the last one to settle makes
\* Manager.call return
TaskFinish ==
  /\ pc = "call"
  /\ \E k \in running(taskState) :
     \E o \in ExecuteOutcomes(callRequests[k]) :
       LET pushed == Append(responses, execute(callRequests[k], o))
           st == startTasks([taskState |-> [taskState EXCEPT ![k] = "settled"],
                             fate |-> [fate EXCEPT ![k] = o],
                             tasks |-> tasks, wire |-> wire,
                             executes |-> executes],
                            callRequests, context)
       IN /\ responses' = pushed
          /\ wire' = st.wire
          /\ fate' = st.fate
          /\ taskState' = st.taskState
          /\ tasks' = st.tasks
          /\ executes' = st.executes
          /\ IF allSettled(st.taskState)
             THEN CallReturns(pushed, response)
             ELSE UNCHANGED <<pc, i, request, results, history, outcome,
                              providerCalls, reqLog, resLog>>
  /\ UNCHANGED <<registry, iterations, aborted, response, callRequests,
                 managerCalls, callLog, abortInfo, stray, concurrency, parent,
                 executesBefore, requested>>
  /\ UNCHANGED componentVars

Next ==
  \/ Connect
  \/ OptionsFail
  \/ OptionsDone
  \/ Abort
  \/ ProviderFail
  \/ ProviderReturn
  \/ TaskFinish

Spec == Init /\ [][Next]_vars

(* ----------------- Manager.call driven by a direct caller --------------- *)
\* the requests a caller may put at position k of its n-th call: a tool
\* request to "t", an agent request to "a" or to "t" whose call is a string,
\* an agent request to "a" whose call is a message that carries a task id
\* and reference task ids of its own, or one to "t" whose message carries
\* the same task id
Shapes == {"tool_t", "agent_a", "agent_t", "agent_a_message",
           "agent_t_message"}
callerRequest(shape, n, k) ==
  IF shape = "tool_t" THEN toolRequest(n, k)
  ELSE IF shape = "agent_a" THEN agentRequest(n, k)
  ELSE IF shape = "agent_t" THEN [agentRequest(n, k) EXCEPT !.uri = "t"]
  ELSE IF shape = "agent_t_message"
  THEN [agentRequest(n, k) EXCEPT !.uri = "t", !.taskId = 7]
  ELSE [agentRequest(n, k) EXCEPT !.taskId = 7, !.refs = {8}]
RequestArrays(n, left) ==
  UNION { { [k \in 1..len |-> callerRequest(f[k], n, k)] :
              f \in [1..len -> Shapes] } : len \in 0..Min(MaxReq, left) }

\* the managers explored: any registry, the callable under "t" possibly
\* registered under a key that is not its uri, and the concurrency the
\* environment sets (the default when it sets none)
CallInit ==
  /\ registry \in Registries
  /\ stray \in {{}, {u \in {"t"} : registry[u] # "none"}}
  /\ concurrency \in {1, DEFAULT_CONCURRENCY}
  /\ pc = "ready"
  /\ iterations = 0
  /\ aborted = FALSE
  /\ i = 0
  /\ request = [messages |-> InitialMessages, tools |-> <<>>, agents |-> <<>>]
  /\ response = <<>>
  /\ results = <<>>
  /\ history = <<>>
  /\ callRequests = <<>>
  /\ taskState = <<>>
  /\ responses = <<>>
  /\ tasks = NoTasks
  /\ outcome = Pending
  /\ providerCalls = 0
  /\ managerCalls = 0
  /\ executes = 0
  /\ reqLog = <<>>
  /\ resLog = <<>>
  /\ callLog = <<>>
  /\ abortInfo = NoAbort
  /\ parent = "p"
  /\ wire = <<>>
  /\ fate = <<>>
  /\ executesBefore = 0
  /\ requested = 0
  /\ ComponentsIdle

\* Manager.call({request, options}): every request is handed to the
\* semaphore; the call returns at once when nothing is left to wait for
\* (an empty request array returns [] before the semaphore is built)
ManagerCall ==
  /\ pc = "ready"
  /\ managerCalls < MaxCalls
  /\ \E pid \in Parents : \E reqs \in RequestArrays(managerCalls + 1, MaxTotal - requested) :
       LET st == startTasks(queuedCall(reqs, tasks, executes), reqs,
                            [context EXCEPT !.parent = pid])
       IN /\ parent' = pid
          /\ callRequests' = reqs
          /\ taskState' = st.taskState
          /\ fate' = st.fate
          /\ tasks' = st.tasks
          /\ wire' = st.wire
          /\ executes' = st.executes
          /\ pc' = IF allSettled(st.taskState) THEN "returned" ELSE "call"
          /\ requested' = requested + Len(reqs)
  /\ executesBefore' = executes
  /\ responses' = <<>>
  /\ managerCalls' = managerCalls + 1
  /\ UNCHANGED <<registry, iterations, aborted, i, request, response, results,
                 history, outcome, providerCalls, reqLog, resLog, callLog,
                 abortInfo, stray, concurrency>>
  /\ UNCHANGED componentVars

\* the execute of request k settles with a response, which is pushed; the
\* semaphore admits the next queued request; the last one to settle makes
\* Manager.call return the responses
ExecuteSettles ==
  /\ pc = "call"
  /\ \E k \in running(taskState) :
     \E o \in ExecuteOutcomes(callRequests[k]) :
       LET st == startTasks([taskState |-> [taskState EXCEPT ![k] = "settled"],
                             fate |-> [fate EXCEPT ![k] = o],
                             tasks |-> tasks, wire |-> wire,
                             executes |-> executes],
                            callRequests, context)
       IN /\ responses' = Append(responses, execute(callRequests[k], o))
          /\ taskState' = st.taskState
          /\ fate' = st.fate
          /\ tasks' = st.tasks
          /\ wire' = st.wire
          /\ executes' = st.executes
          /\ pc' = IF allSettled(st.taskState) THEN "returned" ELSE "call"
  /\ UNCHANGED <<registry, iterations, aborted, i, request, response, results,
                 history, callRequests, outcome, providerCalls, managerCalls,
                 reqLog, resLog, callLog, abortInfo, stray, concurrency,
                 parent, executesBefore, requested>>
  /\ UNCHANGED componentVars

\* the caller has taken the responses; the call's frame is gone
CallerContinues ==
  /\ pc = "returned"
  /\ pc' = "ready"
  /\ callRequests' = <<>>
  /\ taskState' = <<>>
  /\ responses' = <<>>
  /\ wire' = <<>>
  /\ fate' = <<>>
  /\ executesBefore' = executes
  /\ UNCHANGED <<registry, iterations, aborted, i, request, response, results,
                 history, tasks, outcome, providerCalls, managerCalls,
                 executes, reqLog, resLog, callLog, abortInfo, stray,
                 concurrency, parent, requested>>
  /\ UNCHANGED componentVars

CallNext ==
  \/ ManagerCall
  \/ ExecuteSettles
  \/ CallerContinues

CallSpec == CallInit /\ [][CallNext]_vars

(* ------------- the adapters and the Model taken one at a time ----------- *)
\* no connect() and no Manager.call is under way: a Model created without
\* services, with the default budget
LoopIdle ==
  /\ registry = [u \in Uris |-> "none"]
  /\ stray = {}
  /\ concurrency = DEFAULT_CONCURRENCY
  /\ pc = "idle"
  /\ iterations = MaxIter
  /\ aborted = FALSE
  /\ i = 0
  /\ request = [messages |-> InitialMessages, tools |-> <<>>, agents |-> <<>>]
  /\ response = <<>>
  /\ results = <<>>
  /\ history = <<>>
  /\ callRequests = <<>>
  /\ taskState = <<>>
  /\ responses = <<>>
  /\ tasks = NoTasks
  /\ outcome = Pending
  /\ providerCalls = 0
  /\ managerCalls = 0
  /\ executes = 0
  /\ reqLog = <<>>
  /\ resLog = <<>>
  /\ callLog = <<>>
  /\ abortInfo = NoAbort
  /\ parent = "p"
  /\ wire = <<>>
  /\ fate = <<>>
  /\ executesBefore = 0
  /\ requested = 0

loopVars == <<registry, iterations, aborted, pc, i, request, response, results,
              history, callRequests, taskState, responses, tasks, outcome,
              providerCalls, managerCalls, executes, reqLog, resLog, callLog,
              abortInfo, stray, concurrency, parent, wire, fate,
              executesBefore, requested>>

\* a Model and its adapters on which nothing has been called yet
Idle == LoopIdle /\ ComponentsIdle

\* what the steps on one component leave unchanged: the loop's state and
\* the other components
infoFrame == <<loopVars, addVars, monitorVars, adapterVars,
               modelHistory, closeVars, discoverVars, engineVars>>
addFrame == <<loopVars, infoVars, monitorVars, adapterVars,
              modelHistory, closeVars, discoverVars, engineVars>>
monitorFrame == <<loopVars, infoVars, addVars, adapterVars,
                  modelHistory, closeVars, discoverVars, engineVars>>
adapterFrame == <<loopVars, infoVars, addVars, monitorVars,
                  modelHistory, closeVars, discoverVars, engineVars>>
closeFrame == <<loopVars, infoVars, addVars, monitorVars,
                adapterVars, modelHistory, discoverVars, engineVars>>
discoverFrame == <<loopVars, infoVars, addVars, monitorVars,
                   adapterVars, modelHistory, closeVars, engineVars>>
engineFrame == <<loopVars, infoVars, addVars, monitorVars,
                 adapterVars, modelHistory, closeVars, discoverVars>>

(* ------------------------- Agent / Tool getInfo ------------------------- *)
\* if (this._info) return this._info
cached(inf) == inf # NoInfo
\* if (!this._infoPromise) this._infoPromise = <fetch>
inFlight_never(ip) == FALSE
inFlight(ip) == ip # NoPromise

\* getInfo() up to its await: a cached value is returned at once; otherwise
\* the caller awaits the promise in flight, starting the fetch if there is
\* none
GetInfo(c) ==
  /\ callers[c].pc = "idle"
  /\ infoCalls < MaxInfoCalls
  /\ infoCalls' = infoCalls + 1
  /\ IF cached(info)
     THEN /\ callers' = [callers EXCEPT ![c] = [pc |-> "returned",
                                                awaits |-> NoPromise]]
          /\ returned' = returned \cup {info}
          /\ UNCHANGED <<infoPromise, promises, fetches>>
     ELSE LET start == ~inFlight(infoPromise)
              joined == IF start THEN Len(promises) + 1 ELSE infoPromise
          IN /\ promises' = IF start THEN Append(promises, "pending")
                            ELSE promises
             /\ fetches' = IF start THEN fetches + 1 ELSE fetches
             /\ infoPromise' = joined
             /\ callers' = [callers EXCEPT ![c] = [pc |-> "awaiting",
                                                   awaits |-> joined]]
             /\ UNCHANGED returned
  /\ UNCHANGED info
  /\ UNCHANGED infoFrame

\* the agent card / the capability discovery arrives, or fails
FetchSettles ==
  /\ \E n \in DOMAIN promises : \E o \in {"resolved", "rejected"} :
       /\ promises[n] = "pending"
       /\ promises' = [promises EXCEPT ![n] = o]
  /\ UNCHANGED <<info, infoPromise, fetches, infoCalls, callers, returned>>
  /\ UNCHANGED infoFrame

\* getInfo() after its await: this._info = <value>; this._infoPromise =
\* undefined; return this._info.  A rejected promise makes the await throw,
\* so that nothing is assigned and the promise stays in the field
Resume(c) ==
  /\ callers[c].pc = "awaiting"
  /\ promises[callers[c].awaits] # "pending"
  /\ IF promises[callers[c].awaits] = "resolved"
     THEN /\ info' = callers[c].awaits
          /\ infoPromise' = NoPromise
          /\ callers' = [callers EXCEPT ![c].pc = "returned"]
          /\ returned' = returned \cup {callers[c].awaits}
     ELSE /\ callers' = [callers EXCEPT ![c].pc = "rejected"]
          /\ UNCHANGED <<info, infoPromise, returned>>
  /\ UNCHANGED <<promises, fetches, infoCalls>>
  /\ UNCHANGED infoFrame

\* the caller has taken the value (or the rejection) and may call again
CallerDone(c) ==
  /\ callers[c].pc \in {"returned", "rejected"}
  /\ callers' = [callers EXCEPT ![c] = [pc |-> "idle", awaits |-> NoPromise]]
  /\ UNCHANGED <<info, infoPromise, promises, fetches, infoCalls, returned>>
  /\ UNCHANGED infoFrame

InfoNext ==
  \/ \E c \in Callers : GetInfo(c)
  \/ FetchSettles
  \/ \E c \in Callers : Resume(c)
  \/ \E c \in Callers : CallerDone(c)

InfoSpec == Idle /\ [][InfoNext]_vars

(* ------------------------ Model.add and connect ------------------------- *)
\* Model.add evaluates `"engine" in service` for every object that is not an
\* A2A service, which throws a TypeError when the object is null
addThrows(shape) == shape = "null"
\* Util.add: a callable is made of an agent or of a tool; anything else
\* makes it throw "Invalid service type", i.e. reject
recognised(shape) == shape \in {"agent", "tool"}
\* await this._addPromise: the chain settles when every add chained into it
\* has settled (each of them catches its own failure)
addsSettled_skip(ads, chain) == TRUE
addsSettled_strict(ads, chain) ==
  \A k \in chain : ads[k].state = "registered"
addsSettled(ads, chain) == \A k \in chain : ads[k].state # "pending"

\* add(service, uri): chains this._add(...).then(set).catch(log) into
\* _addPromise and returns this
Add(u, shape) ==
  /\ Len(adds) < MaxAdds
  /\ IF addThrows(shape)
     THEN /\ adds' = Append(adds, [uri |-> u, shape |-> shape,
                                   state |-> "failed", sync |-> "threw"])
          /\ UNCHANGED addPromise
     ELSE /\ adds' = Append(adds, [uri |-> u, shape |-> shape,
                                   state |-> "pending", sync |-> "returned"])
          /\ addPromise' = addPromise \cup {Len(adds) + 1}
  /\ UNCHANGED <<data, awaited, cpc, services, addsAtConnect, dataAtDispatch>>
  /\ UNCHANGED addFrame

\* the promise of this._add settles: super.set(callable.uri, callable), or
\* the error is logged
AddSettles(k, ok) ==
  /\ adds[k].state = "pending"
  /\ ok => recognised(adds[k].shape)
  /\ adds' = [adds EXCEPT ![k].state = IF ok THEN "registered" ELSE "failed"]
  /\ data' = IF ok THEN [data EXCEPT ![adds[k].uri] = k] ELSE data
  /\ UNCHANGED <<addPromise, awaited, cpc, services, addsAtConnect,
                 dataAtDispatch>>
  /\ UNCHANGED addFrame

\* connect(): Util.options(this.values, options) is called with the
\* callables registered now
ConnectCalled ==
  /\ cpc = "idle"
  /\ cpc' = "options"
  /\ services' = data
  /\ addsAtConnect' = Len(adds)
  /\ UNCHANGED <<data, adds, addPromise, awaited, dataAtDispatch>>
  /\ UNCHANGED addFrame

\* a getTarget() of a listed callable rejects: connect() rejects
OptionsReject ==
  /\ cpc = "options"
  /\ \E u \in Uris : services[u] # NotRegistered
  /\ cpc' = "failed"
  /\ UNCHANGED <<data, adds, addPromise, awaited, services, addsAtConnect,
                 dataAtDispatch>>
  /\ UNCHANGED addFrame

\* the options are built and execute() begins: it awaits _addPromise when
\* there is one, else it enters the reactive loop, which calls the provider
OptionsResolved ==
  /\ cpc = "options"
  /\ IF addPromise # {}
     THEN cpc' = "adds" /\ awaited' = addPromise
     ELSE cpc' = "loop" /\ UNCHANGED awaited
  /\ UNCHANGED <<data, adds, addPromise, services, addsAtConnect,
                 dataAtDispatch>>
  /\ UNCHANGED addFrame

\* the awaited chain has settled: the reactive loop starts
AddsAwaited ==
  /\ cpc = "adds"
  /\ addsSettled(adds, awaited)
  /\ cpc' = "loop"
  /\ UNCHANGED <<data, adds, addPromise, awaited, services, addsAtConnect,
                 dataAtDispatch>>
  /\ UNCHANGED addFrame

\* the provider has answered and its calls are handed to Manager.call
Dispatch ==
  /\ cpc = "loop"
  /\ cpc' = "dispatched"
  /\ dataAtDispatch' = data
  /\ UNCHANGED <<data, adds, addPromise, awaited, services, addsAtConnect>>
  /\ UNCHANGED addFrame

AddNext ==
  \/ \E u \in Uris : \E shape \in ServiceShapes : Add(u, shape)
  \/ \E k \in DOMAIN adds : \E ok \in BOOLEAN : AddSettles(k, ok)
  \/ ConnectCalled
  \/ OptionsReject
  \/ OptionsResolved
  \/ AddsAwaited
  \/ Dispatch

AddSpec == Idle /\ [][AddNext]_vars

(* ------------------------------- Monitor -------------------------------- *)
\* this.emitUpdate.bind(this): a function that no earlier bind returned
bind(n) == n + 1
\* publisher.on(event, fn)
on(ls, fn) == ls \cup {fn}
\* publisher.removeListener(event, fn): removes fn if it is listening
removeListener(ls, fn) == ls \ {fn}

\* _registerContext(context) on the listeners ls of the context's publisher
\* (the update and the error listener are attached and removed together)
registerContext(ls, n) == on(ls, bind(n))
\* _unregisterContext(context)
unregisterContext(ls, n) == removeListener(ls, bind(n))

\* the ids under which context c is held
HeldUnder(c) == {id \in ContextIds : contexts[id] = c}

\* set(id, context): an existing context of the id is unregistered, the new
\* one registered and stored
MonitorSet(id, c) ==
  /\ bound < 2 * MaxMonitorOps
  /\ LET old == contexts[id]
         ls1 == IF old # NoContext
                THEN [listeners EXCEPT ![old] = unregisterContext(@, bound)]
                ELSE listeners
         n1 == IF old # NoContext THEN bind(bound) ELSE bound
     IN /\ listeners' = [ls1 EXCEPT ![c] = registerContext(@, n1)]
        /\ bound' = bind(n1)
  /\ contexts' = [contexts EXCEPT ![id] = c]
  /\ UNCHANGED <<relayed, created>>
  /\ UNCHANGED monitorFrame

\* create(params): the context manager makes a new context (one that is
\* held nowhere and has no listener yet) under an id it does not hold, and
\* the context is registered
MonitorCreate(id, c) ==
  /\ bound < 2 * MaxMonitorOps
  /\ contexts[id] = NoContext
  /\ HeldUnder(c) = {}
  /\ listeners[c] = {}
  /\ listeners' = [listeners EXCEPT ![c] = registerContext(@, bound)]
  /\ bound' = bind(bound)
  /\ contexts' = [contexts EXCEPT ![id] = c]
  /\ created' = created \cup {c}
  /\ UNCHANGED relayed
  /\ UNCHANGED monitorFrame

\* delete(id): the context, if there is one, is unregistered and removed
MonitorDelete(id) ==
  /\ bound < 2 * MaxMonitorOps
  /\ contexts[id] # NoContext
  /\ listeners' = [listeners EXCEPT
                     ![contexts[id]] = unregisterContext(@, bound)]
  /\ bound' = bind(bound)
  /\ contexts' = [contexts EXCEPT ![id] = NoContext]
  /\ UNCHANGED <<relayed, created>>
  /\ UNCHANGED monitorFrame

\* the publisher of context c emits an update or an error: every listener
\* on it re-emits the event on the Monitor
Publish(c, kind) ==
  /\ relayed' =
       {[context |-> c, kind |-> kind, held |-> HeldUnder(c) # {},
         copies |-> Cardinality(listeners[c])]}
  /\ UNCHANGED <<contexts, listeners, bound, created>>
  /\ UNCHANGED monitorFrame

MonitorNext ==
  \/ \E id \in ContextIds : \E c \in Contexts : MonitorCreate(id, c)
  \/ \E id \in ContextIds : \E c \in Contexts : MonitorSet(id, c)
  \/ \E id \in ContextIds : MonitorDelete(id)
  \/ \E c \in Contexts : \E kind \in {"update", "error"} : Publish(c, kind)

MonitorSpec == Idle /\ [][MonitorNext]_vars

(* ------------- execute() under the Model's update callback -------------- *)
\* stderr.off("data", handle)
off_never(ls, fn) == ls
off(ls, fn) == removeListener(ls, fn)

\* _handler(request, options.callback): the listener of call k turns buffer
\* n into a partial ToolResponse with the request's id and hands it to the
\* callback, which Model.execute set to events.emit("update", data)
partial(k, n) == [call |-> k, data |-> "stderr", chunk |-> n]
\* the Monitor relays a task update of an agent whose contexts it manages
taskUpdate(k) == [call |-> k, data |-> "task", chunk |-> 0]
\* an update event whose data is the response execute() k returned
responseUpdate(k) == [call |-> k, data |-> "response", chunk |-> 0]

\* callable.execute({request, options}) up to the await of the underlying
\* call; callTool first attaches its stderr listener
AdapterExecute(kind) ==
  /\ Len(adapterCalls) < MaxExecutes
  /\ adapterCalls' = Append(adapterCalls,
                            [kind |-> kind, state |-> "running",
                             outcome |-> "none", began |-> chunks,
                             ended |-> chunks])
  /\ stderr' = IF kind = "tool" THEN on(stderr, Len(adapterCalls) + 1)
               ELSE stderr
  /\ UNCHANGED <<chunks, updates>>
  /\ UNCHANGED adapterFrame

\* the tool's subprocess writes a buffer to stderr: every listener delivers
\* its partial response
StderrData ==
  /\ chunks < MaxChunks
  /\ chunks' = chunks + 1
  /\ updates' = updates \cup {partial(k, chunks + 1) : k \in stderr}
  /\ UNCHANGED <<adapterCalls, stderr>>
  /\ UNCHANGED adapterFrame

\* an agent run by the Model publishes a task update while it is called
ContextUpdate(k) ==
  /\ adapterCalls[k].kind = "agent"
  /\ adapterCalls[k].state = "running"
  /\ updates' = updates \cup {taskUpdate(k)}
  /\ UNCHANGED <<adapterCalls, stderr, chunks>>
  /\ UNCHANGED adapterFrame

\* the underlying call settles: callTool detaches its listener; the response
\* is built and returned
AdapterSettles(k, o) ==
  /\ adapterCalls[k].state = "running"
  /\ adapterCalls' = [adapterCalls EXCEPT ![k].state = "settled",
                                          ![k].outcome = o,
                                          ![k].ended = chunks]
  /\ stderr' = IF adapterCalls[k].kind = "tool" THEN off(stderr, k)
               ELSE stderr
  /\ UNCHANGED <<chunks, updates>>
  /\ UNCHANGED adapterFrame

AdapterNext ==
  \/ \E kind \in {"agent", "tool"} : AdapterExecute(kind)
  \/ StderrData
  \/ \E k \in DOMAIN adapterCalls : ContextUpdate(k)
  \/ \E k \in DOMAIN adapterCalls : \E o \in CallOutcomes :
       AdapterSettles(k, o)

AdapterSpec == Idle /\ [][AdapterNext]_vars

(* ------------------------------ safeClose ------------------------------- *)
\* the steps safeClose has something to act on: the stream steps need the
\* transport's child process, the kill needs its pid
applies(args, n) ==
  /\ n \in 1..7 => args.process
  /\ CloseSteps[n] = "process.kill" => args.pid
\* await transport.close().catch((_) => {}); await client.close().catch(...)
swallowed(n) == CloseSteps[n] \in {"transport.close", "client.close"}
\* the step made after step n: the next one that applies, if any
nextStep(args, n) ==
  LET later == {m \in (n + 1)..Len(CloseSteps) : applies(args, m)}
  IN IF later = {} THEN Closed
     ELSE CHOOSE m \in later : \A m2 \in later : m <= m2

\* safeClose(client, transport): returns at once when either is missing
SafeClose(args) ==
  /\ closePc \in {NotClosing, Closed}
  /\ closes < MaxCloses
  /\ closes' = closes + 1
  /\ closeArgs' = args
  /\ attempted' = <<>>
  /\ failed' = {}
  /\ IF args.given
     THEN /\ closePc' = nextStep(args, 0)
          /\ closeOutcome' = "pending"
     ELSE /\ closePc' = Closed
          /\ closeOutcome' = "returned"
  /\ UNCHANGED closeFrame

\* one step inside the try block: a failure of close() is swallowed by its
\* own catch; any other step that throws leaves the try block for the
\* catch, which logs the error, and safeClose returns
CloseStep(ok) ==
  /\ closePc \in 1..Len(CloseSteps)
  /\ attempted' = Append(attempted, CloseSteps[closePc])
  /\ failed' = IF ok THEN failed ELSE failed \cup {CloseSteps[closePc]}
  /\ closePc' = IF ok \/ swallowed(closePc) THEN nextStep(closeArgs, closePc)
                ELSE Closed
  /\ closeOutcome' = IF closePc' = Closed THEN "returned" ELSE "pending"
  /\ UNCHANGED <<closeArgs, closes>>
  /\ UNCHANGED closeFrame

CloseNext ==
  \/ \E args \in [given : BOOLEAN, process : BOOLEAN, pid : BOOLEAN] :
       SafeClose(args)
  \/ \E ok \in BOOLEAN : CloseStep(ok)

CloseSpec == Idle /\ [][CloseNext]_vars

(* ----------------------- MCP capability discovery ----------------------- *)
\* the listing getToolInfo reads after the n-th one: the next one the server
\* declares, or none, and the ToolInfo is built
nextStage(n, caps) ==
  LET later == {j \in (n + 1)..Len(Kinds) : Kinds[j] \in caps}
  IN IF later = {} THEN "built"
     ELSE Kinds[CHOOSE j \in later : \A l \in later : j <= l]
\* the position of a listing in that order
stageOf(kind) == CHOOSE n \in DOMAIN Kinds : Kinds[n] = kind

\* the items of page p of a listing (an item is named by its page), and the
\* whole listing the server holds
pageItems(srv, p) == IF srv.per = 0 THEN <<>> ELSE <<p>>
wholeList(srv) == IF srv.per = 0 THEN <<>> ELSE [p \in 1..srv.pages |-> p]

\* getCapabilities throws when the server does not declare tools
getCapabilitiesThrows(caps) == "tools" \notin caps

\* what one list request yields: the page after the cursor with the cursor
\* to the page that follows, if there is one; a request that fails is
\* caught and replaced by an empty page without a cursor
listResult_onePage(srv, cursor, ok) ==
  [items |-> IF ok THEN pageItems(srv, cursor + 1) ELSE <<>>,
   next |-> NoCursor]
listResult(srv, cursor, ok) ==
  IF ok
  THEN [items |-> pageItems(srv, cursor + 1),
        next |-> IF cursor + 1 < srv.pages THEN cursor + 1 ELSE NoCursor]
  ELSE [items |-> <<>>, next |-> NoCursor]

\* Tool.getInfo() without a cached info calls getToolInfo, which reads the
\* server's capabilities, throws if tools are not among them, and starts
\* with the first listing declared
GetToolInfo(caps, srv) ==
  /\ dpc = "idle"
  /\ \A k \in DOMAIN srv : k \notin caps => srv[k] = [pages |-> 1, per |-> 0]
  /\ capabilities' = caps
  /\ server' = srv
  /\ dpc' = IF getCapabilitiesThrows(caps) THEN "threw"
            ELSE nextStage(0, caps)
  /\ UNCHANGED <<nextCursor, lists, listCalls, toolInfo>>
  /\ UNCHANGED discoverFrame

\* one turn of the do-while of getTools / getResources / getPrompts: the
\* list request with the current cursor, its result pushed and its cursor
\* kept; without a cursor the loop ends, getTools throws on an empty list
\* and getToolInfo goes on to the next listing
ListPage(ok) ==
  /\ dpc \in {"tools", "resources", "prompts"}
  /\ LET got == listResult(server[dpc], nextCursor, ok)
         all == lists[dpc] \o got.items
     IN /\ lists' = [lists EXCEPT ![dpc] = all]
        /\ listCalls' = Append(listCalls, [kind |-> dpc,
                                           cursor |-> nextCursor, ok |-> ok])
        /\ nextCursor' = got.next
        /\ dpc' = IF got.next # NoCursor THEN dpc
                  ELSE IF dpc = "tools" /\ all = <<>> THEN "threw"
                  ELSE nextStage(stageOf(dpc), capabilities)
  /\ UNCHANGED <<capabilities, server, toolInfo>>
  /\ UNCHANGED discoverFrame

\* Tool.getInfo() after its await: the ToolInfo built is cached and
\* returned; a getToolInfo that threw rejects the getInfo()
ToolInfoSettles ==
  /\ dpc \in {"built", "threw"}
  /\ IF dpc = "built"
     THEN dpc' = "returned" /\ toolInfo' = {lists}
     ELSE dpc' = "rejected" /\ UNCHANGED toolInfo
  /\ UNCHANGED <<capabilities, server, nextCursor, lists, listCalls>>
  /\ UNCHANGED discoverFrame

DiscoverNext ==
  \/ \E caps \in SUBSET {"tools", "resources", "prompts"} :
       \E srv \in [{"tools", "resources", "prompts"} ->
                     [pages : 1..MaxPages, per : {0, 1}]] :
         GetToolInfo(caps, srv)
  \/ \E ok \in BOOLEAN : ListPage(ok)
  \/ ToolInfoSettles

DiscoverSpec == Idle /\ [][DiscoverNext]_vars

(* --------------------------- the A2A engine ----------------------------- *)
\* the updates of @artinet/sdk the engine yields
SUBMITTED_UPDATE == [state |-> "submitted", text |-> 0]
FAILED_UPDATE == [state |-> "failed", text |-> 0]
STATUS_UPDATE(st, t) == [state |-> st, text |-> t]

\* if (!message): no content, or an empty one
noMessage_never(content) == FALSE
noMessage(content) == content \in {"", NoText}

\* the run of the generator ends: by return, or by the exception of a
\* rejected await
ended(how) ==
  /\ engineRuns' = Append(engineRuns, [content |-> userMessage,
                                       events |-> yielded,
                                       text |-> finalText, ended |-> how,
                                       at |-> epc])
  /\ epc' = "idle"
  /\ userMessage' = NoText
  /\ yielded' = <<>>
  /\ finalText' = 0

\* model.engine(context): a generator is made; nothing of its body runs
\* before the first next()
EngineCall(content) ==
  /\ epc = "idle"
  /\ Len(engineRuns) < MaxRuns
  /\ epc' = "created"
  /\ userMessage' = content
  /\ UNCHANGED <<yielded, finalText, engineRuns>>
  /\ UNCHANGED engineFrame

\* the consumer's next(): the body runs to its next yield, await or return
EngineNext ==
  /\ epc \in {"created", "failed", "submitted", "completed"}
  /\ IF epc = "created"
     THEN /\ IF noMessage(userMessage)
             THEN epc' = "failed" /\ yielded' = Append(yielded, FAILED_UPDATE)
             ELSE /\ epc' = "submitted"
                  /\ yielded' = Append(yielded, SUBMITTED_UPDATE)
          /\ UNCHANGED <<userMessage, finalText, engineRuns>>
     ELSE IF epc = "submitted"
     THEN /\ epc' = "getTask"
          /\ UNCHANGED <<userMessage, yielded, finalText, engineRuns>>
     ELSE ended("returned")
  /\ UNCHANGED engineFrame

\* await context.getTask(), then await Util.options(self.values): each
\* resolves, or rejects and the generator throws
EngineAwait(ok) ==
  /\ epc \in {"getTask", "options"}
  /\ IF ok
     THEN /\ epc' = IF epc = "getTask" THEN "options" ELSE "execute"
          /\ UNCHANGED <<userMessage, yielded, finalText, engineRuns>>
     ELSE ended("threw")
  /\ UNCHANGED engineFrame

\* await self.execute(...): the loop returns its response and the completed
\* status with Util.response(response) is yielded, or it rejects
EngineExecuteSettles(ok, t) ==
  /\ epc = "execute"
  /\ IF ok
     THEN /\ epc' = "completed"
          /\ finalText' = t
          /\ yielded' = Append(yielded, STATUS_UPDATE("completed", t))
          /\ UNCHANGED <<userMessage, engineRuns>>
     ELSE ended("threw")
  /\ UNCHANGED engineFrame

EngineSteps ==
  \/ \E content \in UserContents : EngineCall(content)
  \/ EngineNext
  \/ \E ok \in BOOLEAN : EngineAwait(ok)
  \/ \E ok \in BOOLEAN : \E t \in FinalTexts : EngineExecuteSettles(ok, t)

EngineSpec == Idle /\ [][EngineSteps]_vars

(* ------------------------------ properties ------------------------------ *)
Finished == pc \in {"done", "failed"}
\* the run reached the reactive loop and has settled
LoopFinished == Finished /\ outcome.error # "info failure"
NoContent == Rejected("No content found in response")
NoResponse == Rejected("No response from model")
Range(f) == {f[x] : x \in DOMAIN f}
\* the responses returned by the first n Manager.calls, in order
ResultsUpTo(n) == Flatten(SubSeq(resLog, 1, n))
\* the requests carried by the first n provider responses, in order
CallsUpTo(n) == Flatten(SubSeq(callLog, 1, n))

\* C1: with a budget B >= 1, one run of react calls the provider at most B
\* times and Manager.call at most B times.
C1_BudgetBoundsCalls ==
  iterations >= 1 =>
    /\ providerCalls <= iterations
    /\ managerCalls <= iterations
    /\ managerCalls <= providerCalls

C1_Witness ==
  /\ pc = "done"
  /\ iterations >= 2
  /\ providerCalls = iterations
  /\ managerCalls = iterations

\* the scenario of C2: every service is registered with its kind, the
\* provider's response carried calls on every call, and the budget B >= 1
\* was used up
AllRegistered == registry["a"] = "agent" /\ registry["t"] = "tool"
BudgetExhausted ==
  /\ pc = "done"
  /\ iterations >= 1
  /\ providerCalls = iterations
  /\ AllRegistered
  /\ \A n \in DOMAIN callLog : callLog[n] # <<>>

\* C2 (as claimed): when the provider keeps returning calls until the budget
\* B is exhausted, the calls of the B-th response are not dispatched: only
\* the calls of the first B-1 responses are executed, and connect returns
\* the content of the B-th response.
C2_FinalCallsNotDispatched ==
  BudgetExhausted =>
    /\ executes = Len(CallsUpTo(iterations - 1))
    /\ outcome = Resolved(iterations)

\* C2 (amended): when the provider keeps returning calls until the budget B
\* is exhausted, the calls of the B-th response are dispatched too: the run
\* makes exactly B provider calls and B rounds of service invocation; the
\* responses of the last round reach the history but no provider request,
\* and connect returns the content of the B-th response.
C2_FinalCallsDispatched ==
  BudgetExhausted =>
    /\ managerCalls = iterations
    /\ executes = Len(CallsUpTo(iterations))
    /\ \A n \in 1..iterations : Len(resLog[n]) = Len(callLog[n])
    /\ history = ResultsUpTo(iterations)
    /\ Len(request.tools) + Len(request.agents) = Len(ResultsUpTo(iterations - 1))
    /\ outcome = Resolved(iterations)

C2_Witness ==
  /\ BudgetExhausted
  /\ iterations = 3
  /\ executes = 3
  /\ \A n \in 1..3 : Len(callLog[n]) = 1 /\ isToolRequest(callLog[n][1])

\* C3: the request of the B-th provider call ends with the max-iterations
\* system message, and no earlier provider call of the run carries it.
C3_HintOnFinalCallOnly ==
  \A n \in DOMAIN reqLog :
    /\ n = iterations =>
         reqLog[n].messages[Len(reqLog[n].messages)] = max_iterations_message
    /\ n < iterations =>
         max_iterations_message \notin Range(reqLog[n].messages)

C3_Witness ==
  /\ iterations >= 2
  /\ Len(reqLog) = iterations
  /\ ~aborted

\* C4: if the abort signal fires after K completed iterations (K < B), the
\* run makes at most K+1 provider calls and iteration K+2 never begins.
C4_AbortBoundsCalls ==
  (abortInfo.fired /\ abortInfo.completed < iterations) =>
    /\ providerCalls <= abortInfo.completed + 1
    /\ i <= abortInfo.completed + 1
    /\ (i = abortInfo.completed + 1 => Finished)

C4_Witness ==
  /\ abortInfo.fired
  /\ abortInfo.completed >= 1
  /\ abortInfo.completed + 1 < iterations
  /\ i = abortInfo.completed + 1
  /\ pc = "done"

\* C5 (as claimed): if the abort signal fires while an agent send is in
\* flight, connect() rejects with a cancellation error and no provider call
\* is made after the signal fired (the provider's responses carry text).
C5_AbortInFlightRejects ==
  (abortInfo.inFlightAgent /\ Finished /\ outcome # NoContent) =>
    /\ outcome = Rejected("cancellation")
    /\ providerCalls = abortInfo.calls

\* C5 (amended): if the abort signal fires while an agent send is in flight,
\* no provider call is made after the signal fired and connect() does not
\* reject with a cancellation error: it settles from the last provider
\* response, resolving with its text or failing with "No content found in
\* response" when it has none.
C5_AbortInFlightSettles ==
  abortInfo.inFlightAgent =>
    /\ providerCalls = abortInfo.calls
    /\ pc \in {"call", "done", "failed"}
    /\ Finished =>
         /\ Len(response) = 1
         /\ IF response[1].content = 0
            THEN outcome = NoContent
            ELSE outcome = Resolved(abortInfo.calls)

C5_Witness ==
  /\ abortInfo.inFlightAgent
  /\ pc = "done"
  /\ abortInfo.completed + 1 < iterations
  /\ \E k \in DOMAIN results : results[k].error

\* C6 (as claimed): after the abort signal has fired, the loop exits without
\* a further provider call and returns the last response it obtained, so
\* connect() completes with that response's text (budget of at least 1, the
\* provider's responses carry text).
C6_AbortReturnsLastResponse ==
  (abortInfo.fired /\ LoopFinished /\ iterations >= 1 /\ outcome # NoContent) =>
    /\ providerCalls = abortInfo.calls
    /\ Len(response) = 1
    /\ outcome = Resolved(response[1].content)

\* C6 (amended): after the abort signal has fired no further provider call
\* is started; a provider call in flight is awaited and its failure is
\* connect()'s failure; otherwise the loop returns the last response it
\* obtained and connect() completes with its text ("No content found in
\* response" when it has none), or, when no response was ever obtained,
\* fails with "No response from model".
C6_AbortStopsProviderCalls ==
  abortInfo.fired =>
    /\ providerCalls = abortInfo.calls
    /\ LoopFinished =>
         \/ /\ abortInfo.at = "provider"
            /\ outcome.error \in {"provider failure", "cancellation"}
         \/ /\ response = <<>>
            /\ outcome = NoResponse
         \/ /\ Len(response) = 1
            /\ response[1].content = providerCalls
            /\ outcome = Resolved(providerCalls)
         \/ /\ Len(response) = 1
            /\ response[1].content = 0
            /\ outcome = NoContent

C6_Witness ==
  /\ abortInfo.fired
  /\ abortInfo.at = "call"
  /\ abortInfo.calls + 1 <= iterations
  /\ pc = "done"
  /\ results # <<>>

\* C7: the loop ends as soon as a Manager.call returns no responses; when the
\* first provider response carries no requests, or only requests to
\* unregistered uris, exactly one provider call is made and connect()
\* returns that response's content.
C7_EmptyResultsEndLoop ==
  /\ \A n \in DOMAIN resLog :
        resLog[n] = <<>> => (Finished /\ providerCalls = n /\ managerCalls = n)
  /\ ( /\ callLog # <<>>
       /\ \A k \in DOMAIN callLog[1] : registry[callLog[1][k].uri] = "none" )
     => /\ Finished
        /\ providerCalls = 1
        /\ Len(response) = 1
        /\ IF response[1].content = 0
           THEN outcome = NoContent
           ELSE outcome = Resolved(1)

C7_Witness ==
  /\ pc = "done"
  /\ iterations >= 2
  /\ ~aborted
  /\ Len(callLog) = 1
  /\ Len(callLog[1]) = 2
  /\ \A k \in DOMAIN callLog[1] : registry[callLog[1][k].uri] = "none"
  /\ \E u \in Uris : registry[u] # "none"
  /\ outcome = Resolved(1)

\* the scenario of C8: nothing registered, and the first provider response is
\* one tool request (hence to an unregistered uri) with some text
NoServices == \A u \in Uris : registry[u] = "none"
GhostScenario ==
  /\ NoServices
  /\ iterations >= 2
  /\ callLog # <<>>
  /\ callLog[1] = <<toolRequest(1, 1)>>
  /\ outcome # NoContent

C9_NoResponseOnlyBudgetZero ==
  LoopFinished =>
    /\ outcome = NoResponse => iterations = 0
    /\ outcome.status = "rejected" =>
         outcome.error \in {"No response from model", "provider failure",
                            "cancellation", "No content found in response"}

\* C9 (amended): a connect() that reaches the loop fails with "No response
\* from model" exactly when the provider was never called, which happens
\* exactly when the budget was 0 or the abort signal had fired before the
\* first iteration; every other run returns the final text or fails with a
\* provider failure, a cancellation error or "No content found in response".
C9_NoResponseIffNeverCalled ==
  LoopFinished =>
    /\ outcome = NoResponse <=> providerCalls = 0
    /\ providerCalls = 0 <=>
         (iterations = 0 \/ abortInfo.at \in {"idle", "options"})
    /\ providerCalls > 0 =>
         \/ outcome.status = "resolved" /\ outcome.text = providerCalls
         \/ outcome.error \in {"provider failure", "No content found in response"}
         \/ outcome.error = "cancellation" /\ aborted

C9_Witness ==
  /\ pc = "failed"
  /\ outcome = NoResponse
  /\ iterations >= 1
  /\ abortInfo.at = "options"

\* C10: on every provider call after the first, the request's tool and agent
\* response lists together hold every response returned by the Manager.calls
\* of the earlier iterations, each exactly once, tool responses in the tools
\* list and agent responses in the agents list.
C10_ResponsesAccumulate ==
  \A n \in DOMAIN reqLog :
    n >= 2 =>
      /\ reqLog[n].tools = SelectSeq(ResultsUpTo(n - 1), isToolResponse)
      /\ reqLog[n].agents = SelectSeq(ResultsUpTo(n - 1), isAgentResponse)
      /\ Len(reqLog[n].tools) + Len(reqLog[n].agents) = Len(ResultsUpTo(n - 1))

C10_Witness ==
  /\ Len(reqLog) = 3
  /\ resLog[1] # <<>>
  /\ resLog[2] # <<>>
  /\ \E k \in DOMAIN resLog[1] : isToolResponse(resLog[1][k])
  /\ \E k \in DOMAIN resLog[1] : isAgentResponse(resLog[1][k])
  /\ reqLog[3].tools # <<>>
  /\ reqLog[3].agents # <<>>

(* ------------------- properties of Manager.call ------------------------ *)
\* the messages of the current Manager.call sent to uri u under parent p
Sent(w, p, u) == {k \in DOMAIN w : w[k].parent = p /\ w[k].uri = u}
\* the request of the current Manager.call that message m was built from
RequestOf(m) == CHOOSE r \in Range(callRequests) : r.id = m.id

\* C11: once a child task id is recorded in tasks[P][U], every later step
\* leaves tasks[P][U] unchanged, and every message sent for (P, U) from then
\* on, in the same or in a later Manager.call, carries that id.
C11_SessionSticky ==
  [][\A p \in Parents : \A u \in Uris :
       tasks[p][u] # 0 =>
         /\ tasks'[p][u] = tasks[p][u]
         /\ \A k \in Sent(wire', p, u) : wire'[k].taskId = tasks[p][u]]_vars

\* a second Manager.call under the same parent reaches the agent with a
\* message that brought a task id of its own, and the recorded id is sent
C11_Witness ==
  /\ managerCalls = 2
  /\ \E k \in DOMAIN wire :
        /\ wire[k].parent = parent
        /\ RequestOf(wire[k]).taskId # 0
        /\ wire[k].taskId # RequestOf(wire[k]).taskId
        /\ wire[k].taskId = tasks[parent][wire[k].uri]

\* C12: when one Manager.call sends several messages to the same agent under
\* a parent that had no entry for it, the entry is written exactly once, by
\* the first of them, and every one of the messages carries the id written.
C12_ConcurrentCallsShareSession ==
  \A u \in Uris :
    LET S == Sent(wire, parent, u)
    IN (S # {} /\ \E k \in S : wire[k].created) =>
         /\ Cardinality({k \in S : wire[k].created}) = 1
         /\ \A k \in S : wire[k].created => \A k2 \in S : k <= k2
         /\ tasks[parent][u] # 0
         /\ \A k \in S : wire[k].taskId = tasks[parent][u]

\* two requests to the same agent are in flight together, the first of which
\* created the session
C12_Witness ==
  /\ pc = "call"
  /\ Len(callRequests) = 2
  /\ running(taskState) = {1, 2}
  /\ Len(wire) = 2
  /\ wire[1].uri = wire[2].uri
  /\ wire[1].created
  /\ RequestOf(wire[2]).taskId # 0

\* C13: every message sent for parent P carries referenceTaskIds that hold
\* every child task id tasks[P] held when it was sent, the id of the agent
\* addressed included, and the reference ids the caller supplied.
C13_ReferencesCoverSessions ==
  \A k \in DOMAIN wire :
    LET m == wire[k]
    IN /\ \A u \in Uris :
            m.tasksThen[m.parent][u] # 0 =>
              m.tasksThen[m.parent][u] \in m.referenceTaskIds
       /\ m.tasksThen[m.parent][m.uri] = m.taskId
       /\ m.taskId \in m.referenceTaskIds
       /\ RequestOf(m).refs \subseteq m.referenceTaskIds

\* a message leaves while the parent holds the sessions of two agents, and
\* it carries both ids and the caller's reference
C13_Witness ==
  \E k \in DOMAIN wire :
    /\ Cardinality({u \in Uris : wire[k].tasksThen[wire[k].parent][u] # 0}) = 2
    /\ RequestOf(wire[k]).refs # {}
    /\ Cardinality(wire[k].referenceTaskIds) = 3

\* the positions of the current Manager.call whose execute has answered
Answered == {k \in DOMAIN fate : fate[k] \in SendOutcomes \cup CallOutcomes}
\* the responses pushed so far that carry the id of request k
ResponsesTo(k) ==
  {j \in DOMAIN responses : responses[j].id = callRequests[k].id}

\* C14: every response an adapter returns, and so every response Manager.call
\* returns, carries the id of the request it answers (and its uri, and the
\* kind of response that matches the request's kind).
C14_ResponseIdIsRequestId ==
  /\ \A j \in DOMAIN responses :
        \E k \in Answered :
          /\ responses[j].id = callRequests[k].id
          /\ responses[j].uri = callRequests[k].uri
          /\ isAgentResponse(responses[j]) <=> isAgentRequest(callRequests[k])
          /\ responses[j] = execute(callRequests[k], fate[k])
  /\ \A k \in Answered : ResponsesTo(k) # {}

\* a call has returned a tool response and an agent response, one of them an
\* error response
C14_Witness ==
  /\ pc = "returned"
  /\ Len(responses) = 2
  /\ \E j \in DOMAIN responses : isToolResponse(responses[j])
  /\ \E j \in DOMAIN responses : isAgentResponse(responses[j])
  /\ \E j \in DOMAIN responses : responses[j].error

\* C15: during one Manager.call with N requests, the number of execute
\* invocations in flight never exceeds min(DEFAULT_CONCURRENCY, N), where
\* DEFAULT_CONCURRENCY is the environment's value, 10 when it sets none.
C15_InFlightBounded ==
  Cardinality(running(taskState)) <= Min(concurrency, Len(callRequests))

\* with a concurrency of 1 and two executable requests, the second is
\* admitted only after the first has settled
C15_Witness ==
  /\ concurrency = 1
  /\ Len(callRequests) = 2
  /\ taskState = <<"settled", "running">>
  /\ fate[1] \in SendOutcomes
  /\ fate[2] = "none"

\* request k of the current Manager.call addresses no registered callable,
\* a callable of the other kind, or a callable whose execute throws
Unanswerable(k) ==
  LET r == callRequests[k]
  IN \/ registry[r.uri] = "none"
     \/ registry[r.uri] = "agent" /\ ~isAgentRequest(r)
     \/ registry[r.uri] = "tool" /\ ~isToolRequest(r)
     \/ r.uri \in stray

\* C16: a Manager.call with N >= 0 requests returns at most one response per
\* request and none for a request that is unanswerable; it is never left
\* waiting with nothing in flight, and returns once every request has
\* settled; with N = 0 it returns [] and invokes no callable.
C16_AtMostOneResponsePerRequest ==
  /\ Len(responses) <= Len(callRequests)
  /\ \A k \in DOMAIN callRequests :
        /\ Cardinality(ResponsesTo(k)) <= 1
        /\ Unanswerable(k) => ResponsesTo(k) = {}
        /\ (Unanswerable(k) /\ taskState[k] # "queued") =>
             /\ taskState[k] = "settled"
             /\ fate[k] \in {"skipped", "threw"}
  /\ pc = "call" => running(taskState) # {}
  /\ pc = "returned" => allSettled(taskState)
  /\ (pc = "returned" /\ Len(callRequests) = 0) =>
        /\ responses = <<>>
        /\ executes = executesBefore

\* a call has returned nothing for two requests: one was skipped, the
\* execute of the other threw
C16_Witness ==
  /\ pc = "returned"
  /\ Len(callRequests) = 2
  /\ responses = <<>>
  /\ \E k \in DOMAIN fate : fate[k] = "skipped"
  /\ \E k \in DOMAIN fate : fate[k] = "threw"
  /\ executes = executesBefore + 1

\* C17: a request that is skipped, whose execute throws or whose underlying
\* call fails does not cancel or drop its peers: Manager.call returns only
\* when every request has settled, and what it returns holds exactly one
\* response for every request that is not unanswerable.
C17_FailuresDoNotDropPeers ==
  /\ pc = "returned" =>
        /\ \A k \in DOMAIN callRequests : taskState[k] = "settled"
        /\ \A k \in DOMAIN callRequests :
              ~Unanswerable(k) =>
                /\ fate[k] \in ExecuteOutcomes(callRequests[k])
                /\ Cardinality(ResponsesTo(k)) = 1
        /\ Len(responses) =
             Cardinality({k \in DOMAIN callRequests : ~Unanswerable(k)})
  /\ pc = "call" =>
        \A k \in DOMAIN callRequests :
          (~Unanswerable(k) /\ taskState[k] = "settled") =>
            Cardinality(ResponsesTo(k)) = 1

\* under a concurrency of 1 the first request failed (its send rejected, or
\* its execute threw) and the one queued behind it was still executed and
\* answered
C17_Witness ==
  /\ pc = "returned"
  /\ concurrency = 1
  /\ Len(callRequests) = 2
  /\ fate[1] \in {"reject", "threw"}
  /\ fate[2] = "result"
  /\ \E j \in DOMAIN responses :
        responses[j].id = callRequests[2].id /\ ~responses[j].error

\* every request of the Manager.call that has returned was executed and its
\* underlying call resolved with a result
AllSucceeded ==
  /\ pc = "returned"
  /\ \A k \in DOMAIN callRequests : fate[k] = "result"

\* C18 (as claimed): when every request of a Manager.call succeeds, the i-th
\* response of the returned list answers the i-th request.
C18_ResponsesInRequestOrder ==
  AllSucceeded =>
    /\ Len(responses) = Len(callRequests)
    /\ \A j \in DOMAIN responses : responses[j].id = callRequests[j].id

\* C18 (amended): when every request of a Manager.call succeeds, the returned
\* list holds exactly one response per request, in the order in which the
\* executes settled; it is the order of the requests when the concurrency is
\* 1, and need not be otherwise.
C18_ResponsesInCompletionOrder ==
  AllSucceeded =>
    /\ Len(responses) = Len(callRequests)
    /\ \A k \in DOMAIN callRequests : Cardinality(ResponsesTo(k)) = 1
    /\ concurrency = 1 =>
         \A j \in DOMAIN responses : responses[j].id = callRequests[j].id

\* two requests succeeded and the response to the second comes first
C18_Witness ==
  /\ AllSucceeded
  /\ Len(callRequests) = 2
  /\ responses[1].id = callRequests[2].id
  /\ responses[2].id = callRequests[1].id

\* C19: an adapter whose uri matches the request never rejects: whenever its
\* underlying sendMessage or callTool rejects, an abort included, execute
\* answers with a response whose result is the error's text and whose error
\* field holds the error; a result is answered without an error; execute
\* throws only for a request routed to a callable of another uri.
C19_AdaptersCaptureFailures ==
  \A k \in DOMAIN callRequests :
    /\ fate[k] = "threw" => callRequests[k].uri \in stray
    /\ (~Unanswerable(k) /\ taskState[k] = "settled") =>
         /\ fate[k] \in ExecuteOutcomes(callRequests[k])
         /\ Cardinality(ResponsesTo(k)) = 1
    /\ \A j \in ResponsesTo(k) :
         /\ fate[k] = "reject" =>
              responses[j].error /\ responses[j].result = "error message"
         /\ fate[k] = "result" =>
              ~responses[j].error /\ responses[j].result = "ok"

\* the abort signal fired while an agent's send was in flight, the send
\* rejected, a tool's call rejected too, and the loop went on to return
C19_Witness ==
  /\ abortInfo.inFlightAgent
  /\ pc = "done"
  /\ Len(callRequests) = 2
  /\ \A k \in DOMAIN callRequests : fate[k] = "reject"
  /\ \E k \in DOMAIN callRequests : isAgentRequest(callRequests[k])
  /\ \E k \in DOMAIN callRequests : isToolRequest(callRequests[k])
  /\ Len(results) = 2

\* C20 (as claimed): when an agent's sendMessage resolves with null or
\* undefined, the response of Agent.execute has the result "unknown error"
\* and its error field is set.
C20_NullResultIsMarkedError ==
  \A k \in DOMAIN callRequests :
    fate[k] = "null" =>
      \A j \in ResponsesTo(k) :
        /\ responses[j].result = "unknown error"
        /\ responses[j].error

\* an agent's sendMessage resolved with null and the call has returned the
\* response made of it
C20_Witness ==
  /\ pc = "returned"
  /\ \E k \in DOMAIN callRequests :
        /\ fate[k] = "null"
        /\ \E j \in ResponsesTo(k) :
              responses[j].result = "unknown error" /\ ~responses[j].error

\* the positions of the current Manager.call whose request reaches a
\* callable registered under a key that is not its own uri
Mismatched ==
  {k \in DOMAIN callRequests :
     dispatchable(registry, callRequests[k]) /\ callRequests[k].uri \in stray}

\* C21: execute rejects with "Invalid request URI" whenever the request's
\* uri differs from the adapter's: the request never runs, no message of it
\* is sent, no response is made of it, and no session is written for it.
C21_MismatchRejectsBeforeSend ==
  /\ \A k \in Mismatched :
        /\ taskState[k] # "running"
        /\ taskState[k] = "settled" => fate[k] = "threw"
        /\ \A m \in DOMAIN wire : wire[m].id # callRequests[k].id
        /\ ResponsesTo(k) = {}
        /\ \A p \in Parents : tasks[p][callRequests[k].uri] = 0
  /\ \A k \in DOMAIN fate : fate[k] = "threw" => k \in Mismatched

\* an agent request met a mismatched adapter and was rejected, while its
\* peer to another agent was sent and opened that agent's session
C21_Witness ==
  /\ pc = "returned"
  /\ Len(callRequests) = 2
  /\ \E k \in Mismatched :
        /\ isAgentRequest(callRequests[k])
        /\ fate[k] = "threw"
  /\ \E k \in DOMAIN fate : fate[k] = "result" /\ isAgentRequest(callRequests[k])
  /\ Len(wire) = 1
  /\ tasks[parent]["a"] # 0
  /\ tasks[parent]["t"] = 0
  /\ executes = executesBefore + 2

\* C22: while an adapter's info is not cached, any number of concurrent
\* getInfo() calls, the constructor's included, cause exactly one underlying
\* fetch and return equal values; once it is cached, no call fetches again.
C22_GetInfoSingleFlight ==
  /\ fetches = 1
  /\ Cardinality(returned) <= 1
  /\ \A c \in Callers : callers[c].pc = "awaiting" => callers[c].awaits = 1
  /\ cached(info) => returned = {info}

\* two callers awaited the constructor's fetch together and have returned
\* its value, and a call made after that was served from the cache
C22_Witness ==
  /\ fetches = 1
  /\ returned = {1}
  /\ \E c, d, e \in Callers :
        /\ c # d
        /\ callers[c] = [pc |-> "returned", awaits |-> 1]
        /\ callers[d] = [pc |-> "returned", awaits |-> 1]
        /\ callers[e] = [pc |-> "returned", awaits |-> NoPromise]
        /\ infoCalls >= 4

\* the add() calls made before connect() was called
AddedBefore == 1..addsAtConnect
\* connect() has entered the reactive loop
LoopStarted == cpc \in {"loop", "dispatched"}

\* C23: a connect() issued while adds are pending does not start the
\* reactive loop until every add made before it has settled, and every such
\* add that succeeded has its uri registered (with that service, or with
\* another one added under the same uri) when the provider's calls are
\* dispatched.
C23_ConnectAwaitsPendingAdds ==
  /\ LoopStarted => \A k \in AddedBefore : adds[k].state # "pending"
  /\ cpc = "dispatched" =>
        \A k \in AddedBefore :
          adds[k].state = "registered" =>
            dataAtDispatch[adds[k].uri] # NotRegistered

\* connect() was called while two adds were pending; it waited for both and
\* the registry at dispatch holds both services
C23_Witness ==
  /\ cpc = "dispatched"
  /\ addsAtConnect = 2
  /\ services = [u \in Uris |-> NotRegistered]
  /\ adds[1].state = "registered"
  /\ adds[2].state = "registered"
  /\ adds[1].uri # adds[2].uri
  /\ dataAtDispatch[adds[1].uri] = 1
  /\ dataAtDispatch[adds[2].uri] = 2

\* C24 (as claimed): the ConnectRequest handed to the provider lists every
\* service whose add() was called before the connect() and succeeded, even
\* if the addition was still in progress when connect() was called.
C24_RequestListsAddedServices ==
  LoopStarted =>
    \A k \in AddedBefore :
      adds[k].state = "registered" => services[adds[k].uri] # NotRegistered

\* a service was added, connect() was called at once, the add succeeded and
\* the provider was called with a request that lists no service
C24_Witness ==
  /\ LoopStarted
  /\ addsAtConnect = 1
  /\ adds[1].state = "registered"
  /\ data[adds[1].uri] = 1
  /\ services = [u \in Uris |-> NotRegistered]

\* C25 (as claimed): add() called with a service definition of an
\* unrecognised shape throws, instead of returning the orchestrator.
C25_UnknownShapeThrows ==
  \A k \in DOMAIN adds : ~recognised(adds[k].shape) => adds[k].sync = "threw"

\* an add() of an object that is neither an agent nor a tool returned the
\* orchestrator, and its failure was only logged
C25_Witness ==
  \E k \in DOMAIN adds :
    /\ adds[k].shape = "unknown"
    /\ adds[k].sync = "returned"
    /\ adds[k].state = "failed"

\* C26 (as claimed): after delete(id), and after set(id, newContext)
\* replaced a context, the events published by the removed or replaced
\* context are no longer relayed to the Monitor's subscribers, while the
\* events of a context the Monitor holds are relayed.
C26_RemovedContextsAreUnwired ==
  \A e \in relayed :
    /\ ~e.held => e.copies = 0
    /\ e.held => e.copies >= 1

\* a context was set and then deleted, and an update it published afterwards
\* reached the Monitor's subscribers
C26_Witness ==
  /\ \A id \in ContextIds : contexts[id] = NoContext
  /\ \E e \in relayed : e.kind = "update" /\ ~e.held /\ e.copies = 1

\* the execute() calls that have returned their response
Settled == {k \in DOMAIN adapterCalls : adapterCalls[k].state = "settled"}

\* C27 (as claimed): every agent or tool response produced by a dispatch is
\* published exactly once as an update event on the Model's Monitor that
\* carries that response (stated here as: such an event has been emitted).
C27_ResponsesPublishedOnce ==
  \A k \in Settled : responseUpdate(k) \in updates

\* an agent call and a tool call have returned their responses, and the
\* only update events are a stderr partial and a task update
C27_Witness ==
  /\ Settled = {1, 2}
  /\ \E k \in Settled : adapterCalls[k].kind = "agent"
  /\ \E k \in Settled : adapterCalls[k].kind = "tool"
  /\ \E e \in updates : e.data = "task"
  /\ \E e \in updates : e.data = "stderr"
  /\ \A k \in Settled : responseUpdate(k) \notin updates

\* C30: after Tool.execute settles, on success and on failure, its stderr
\* listener is detached: stderr holds the listeners of the tool calls still
\* running and no others, and no buffer written after the call settled
\* yields a partial response for its request.
C30_StderrListenerDetached ==
  /\ stderr = {k \in DOMAIN adapterCalls :
                 adapterCalls[k].kind = "tool" /\ adapterCalls[k].state = "running"}
  /\ \A k \in Settled : \A n \in 1..chunks :
        partial(k, n) \in updates => n <= adapterCalls[k].ended

\* a tool call failed after one buffer, of which the callback received the
\* partial response; a second buffer was written after it and a later tool
\* call, which succeeded, had begun: no listener is left
C30_Witness ==
  /\ Settled = {1, 2}
  /\ \A k \in Settled : adapterCalls[k].kind = "tool"
  /\ adapterCalls[1].outcome = "reject"
  /\ adapterCalls[2].outcome = "result"
  /\ adapterCalls[1].ended = 1
  /\ partial(1, 1) \in updates
  /\ chunks = 2
  /\ stderr = {}

\* C28 (as claimed): every response returned by Manager.call during a
\* connect() is appended to the Model's accumulated history, so that
\* Model.history after the run holds all responses of all its iterations.
C28_ModelHistoryHoldsResponses ==
  LoopFinished =>
    \A n \in DOMAIN resLog : \A j \in DOMAIN resLog[n] :
      resLog[n][j] \in Range(modelHistory)

\* a run has returned after a Manager.call that returned a response, which
\* react appended to its own history, and Model.history is still empty
C28_Witness ==
  /\ pc = "done"
  /\ \E n \in DOMAIN resLog : resLog[n] # <<>>
  /\ history # <<>>
  /\ \A j \in DOMAIN history : \E n \in DOMAIN resLog : history[j] \in Range(resLog[n])
  /\ modelHistory = <<>>

\* the steps of the sequence that apply to what safeClose was called on
Applicable ==
  SelectSeq(CloseSteps,
            LAMBDA st : \E n \in DOMAIN CloseSteps :
                          CloseSteps[n] = st /\ applies(closeArgs, n))
Position(seq, st) == CHOOSE n \in DOMAIN seq : seq[n] = st

\* C29 (as claimed): safeClose attempts every step of the sequence in order
\* even when an earlier step throws or fails, and never throws itself;
\* whenever the child's pid is known, SIGKILL is sent after transport.close
\* has been attempted.
C29_EveryStepAttempted ==
  /\ closeOutcome # "threw"
  /\ (closePc = Closed /\ closeArgs.given) =>
        /\ attempted = Applicable
        /\ closeArgs.pid =>
             /\ "process.kill" \in Range(attempted)
             /\ Position(attempted, "transport.close") <
                  Position(attempted, "process.kill")

\* the child had already exited, so that the kill threw: safeClose returned
\* without removing the transport's stderr listeners
C29_Witness ==
  /\ closePc = Closed
  /\ closeOutcome = "returned"
  /\ failed = {"process.kill"}
  /\ Len(attempted) = 10
  /\ "transport.stderr.removeAllListeners" \notin Range(attempted)

\* C33: within one run of the reactive loop the calls strictly alternate:
\* iteration i calls the provider exactly once, then Manager.call at most
\* once, and the provider call of the next iteration starts only after that
\* Manager.call has returned.
C33_CallsAlternate ==
  /\ Len(reqLog) = providerCalls
  /\ Len(callLog) = managerCalls
  /\ managerCalls <= providerCalls
  /\ providerCalls <= managerCalls + 1
  /\ Len(resLog) <= managerCalls
  /\ pc = "provider" =>
        /\ providerCalls = i + 1
        /\ managerCalls = i
        /\ Len(resLog) = i
        /\ running(taskState) = {}
  /\ pc = "call" =>
        /\ providerCalls = i + 1
        /\ managerCalls = i + 1
        /\ Len(resLog) = i
  /\ Finished => Len(resLog) = managerCalls /\ providerCalls <= i + 1

\* the provider call of the third iteration is in flight: two Manager.calls
\* were made, the first of which had to wait for an execute, and both have
\* returned
C33_Witness ==
  /\ pc = "provider"
  /\ i = 2
  /\ providerCalls = 3
  /\ managerCalls = 2
  /\ Len(resLog) = 2
  /\ resLog[1] # <<>>
  /\ resLog[2] # <<>>

\* C34 (as claimed): once the abort signal has fired, no step starts an
\* Agent or Tool execute: neither a Manager.call begun after the provider
\* returned nor a request that was queued behind the concurrency limit.
C34_NoExecuteAfterAbort ==
  [][aborted => executes' = executes]_vars

\* the signal fired while the first provider call was in flight; the provider
\* resolved all the same and a callable was executed for its call
C34_Witness ==
  /\ abortInfo.fired
  /\ abortInfo.at = "provider"
  /\ abortInfo.calls = 1
  /\ managerCalls = 1
  /\ executes >= 1
  /\ \E k \in DOMAIN fate : fate[k] \in SendOutcomes \cup CallOutcomes

\* C36 (as claimed): for a fixed parent task, two different agent uris never
\* share a child task id: each id stored in tasks[P] is freshly generated
\* when first needed, whatever task id the request's message carries.
C36_ChildTaskIdsDistinct ==
  /\ \A p \in Parents : \A u1, u2 \in Uris :
        (u1 # u2 /\ tasks[p][u1] # 0) => tasks[p][u1] # tasks[p][u2]
  /\ \A k \in DOMAIN wire :
        wire[k].created => wire[k].taskId # RequestOf(wire[k]).taskId

\* one Manager.call sent to two agents messages that carried the same task
\* id, and the parent's sessions with both agents have that id
C36_Witness ==
  /\ Len(wire) = 2
  /\ wire[1].uri # wire[2].uri
  /\ wire[1].created
  /\ wire[2].created
  /\ tasks[parent]["a"] = 7
  /\ tasks[parent]["t"] = 7

\* C35 (as claimed): a failed info load does not poison the adapter: a
\* getInfo() called after the underlying fetch has failed starts a new fetch
\* instead of handing out the stored failure.
C35_FailedLoadIsRetried ==
  [][(/\ infoCalls' = infoCalls + 1
      /\ ~cached(info)
      /\ inFlight(infoPromise)
      /\ promises[infoPromise] = "rejected") => fetches' = fetches + 1]_vars

\* the constructor's fetch failed; a getInfo() made after the failure (the
\* three callers can have at most three calls open before it) was rejected
\* with it, and there has still been one fetch only
C35_Witness ==
  /\ promises = <<"rejected">>
  /\ fetches = 1
  /\ infoCalls >= 4
  /\ ~cached(info)
  /\ \E c \in Callers : callers[c] = [pc |-> "rejected", awaits |-> 1]

\* C37 (as claimed): additions take effect in the order add() was called:
\* when two add() calls on the same uri have both registered their service,
\* the registry holds the service of the later call, whichever creation
\* finished first.
C37_LaterAddWins ==
  \A j, k \in DOMAIN adds :
     (/\ j < k
      /\ adds[j].uri = adds[k].uri
      /\ adds[j].state = "registered"
      /\ adds[k].state = "registered") => data[adds[k].uri] # j

\* two add() calls on one uri have both registered, the second one's
\* creation finished first, and the registry holds the first call's service
C37_Witness ==
  /\ Len(adds) = 2
  /\ adds[1].uri = adds[2].uri
  /\ adds[1].state = "registered"
  /\ adds[2].state = "registered"
  /\ data[adds[1].uri] = 1

\* C40: an add() whose service creation fails leaves the registry unchanged
\* (no uri ever holds its service) and does not block the orchestrator: an
\* execute() that awaits a chain whose adds have all settled, failed ones
\* included, can enter the reactive loop.
C40_FailedAddIsHarmless ==
  /\ \A k \in DOMAIN adds :
        adds[k].state = "failed" => \A u \in Uris : data[u] # k
  /\ (cpc = "adds" /\ \A k \in awaited : adds[k].state # "pending")
        => ENABLED AddsAwaited

\* the first add()'s creation failed, a later add() registered its service,
\* and a connect() that awaited both has dispatched with that service in
\* the registry
C40_Witness ==
  /\ Len(adds) = 2
  /\ adds[1].state = "failed"
  /\ adds[1].sync = "returned"
  /\ adds[2].state = "registered"
  /\ awaited = {1, 2}
  /\ cpc = "dispatched"
  /\ dataAtDispatch[adds[2].uri] = 2
  /\ \A u \in Uris : dataAtDispatch[u] # 1

\* C38 (as claimed): after any sequence of create, set and delete on a
\* Monitor, one update or error event from the publisher of a context the
\* Monitor holds produces exactly one Monitor emission, never duplicates.
C38_HeldContextsRelayOnce ==
  \A e \in relayed : e.held => e.copies = 1

\* a context that create() had wired was set again under its id, and one
\* update of its publisher was relayed twice
C38_Witness ==
  /\ "x" \in created
  /\ contexts = [id \in ContextIds |-> IF id = "i" THEN "x" ELSE NoContext]
  /\ listeners["x"] = {1, 3}
  /\ relayed = {[context |-> "x", kind |-> "update", held |-> TRUE,
                 copies |-> 2]}

\* the list requests of one listing that succeeded, and the items of the
\* pages they returned, in the order of the requests
okCalls(k) == SelectSeq(listCalls, LAMBDA c : c.kind = k /\ c.ok)
received(k) ==
  IF server[k].per = 0 THEN <<>>
  ELSE [n \in 1..Len(okCalls(k)) |-> okCalls(k)[n].cursor + 1]

\* C31: capability discovery pages through listTools (and the declared
\* listResources / listPrompts), passing each returned cursor to the next
\* request until a page has none, and never asks for more pages than the
\* server holds; each list is the concatenation of the pages received, the
\* whole listing when every request for it was answered; the discovery
\* fails exactly when the accumulated tools list is empty.
C31_DiscoveryPagesToTheEnd ==
  /\ \A n \in DOMAIN listCalls :
        listCalls[n].cursor =
          IF n > 1 /\ listCalls[n - 1].kind = listCalls[n].kind
          THEN listCalls[n - 1].cursor + 1 ELSE NoCursor
  /\ \A k \in DOMAIN server :
        /\ Len(SelectSeq(listCalls, LAMBDA c : c.kind = k)) <= server[k].pages
        /\ lists[k] = received(k)
        /\ k \notin capabilities => lists[k] = <<>>
  /\ dpc \in {"built", "returned"} =>
        /\ lists["tools"] # <<>>
        /\ \A k \in capabilities :
              (\A n \in DOMAIN listCalls : listCalls[n].ok)
                 => lists[k] = wholeList(server[k])
  /\ dpc \in {"threw", "rejected"} => lists["tools"] = <<>>

\* a server with three pages of tools and two of resources: five requests
\* were made, each with the cursor of the page before, and the info cached
\* holds all of both listings
C31_Witness ==
  /\ capabilities = {"tools", "resources"}
  /\ server["tools"] = [pages |-> 3, per |-> 1]
  /\ server["resources"] = [pages |-> 2, per |-> 1]
  /\ listCalls =
       <<[kind |-> "tools", cursor |-> NoCursor, ok |-> TRUE],
         [kind |-> "tools", cursor |-> 1, ok |-> TRUE],
         [kind |-> "tools", cursor |-> 2, ok |-> TRUE],
         [kind |-> "resources", cursor |-> NoCursor, ok |-> TRUE],
         [kind |-> "resources", cursor |-> 1, ok |-> TRUE]>>
  /\ dpc = "returned"
  /\ \E inf \in toolInfo :
        /\ inf["tools"] = <<1, 2, 3>>
        /\ inf["resources"] = <<1, 2>>
        /\ inf["prompts"] = <<>>

\* C39 (as claimed): capability discovery is all-or-nothing: if a listTools
\* page request fails, getInfo() fails instead of caching and returning a
\* truncated tool list.
C39_DiscoveryAllOrNothing ==
  (\E n \in DOMAIN listCalls :
      listCalls[n].kind = "tools" /\ ~listCalls[n].ok)
    => (dpc \notin {"built", "returned"} /\ toolInfo = NoToolInfo)

\* the server holds three pages of tools; the request for the second page
\* failed and getInfo() returned and cached the first page alone
C39_Witness ==
  /\ capabilities = {"tools"}
  /\ server["tools"] = [pages |-> 3, per |-> 1]
  /\ listCalls = <<[kind |-> "tools", cursor |-> NoCursor, ok |-> TRUE],
                   [kind |-> "tools", cursor |-> 1, ok |-> FALSE]>>
  /\ dpc = "returned"
  /\ \E inf \in toolInfo : inf["tools"] = <<1>>

====
